---- MODULE Spec2Model ----
(***************************************************************************)
(* The sharded LMDB dataset of src/lmdb/lmdbDataset.py as a state machine: *)
(* the root directory (keys.json and the shard directories), one           *)
(* LmdbDataset instance (its key index, its open shards, its head index)   *)
(* and the public operations of the instance, each one action.             *)
(***************************************************************************)
EXTENDS Integers, Sequences, FiniteSets, TLC

\* ------------------------------------------------------------------------
\* Bounds of the model
\* ------------------------------------------------------------------------

\* map_size handed to lmdb.open for every shard: the bytes of keys and values a
\* shard holds before a put raises lmdb.MapFullError
MapSize == 30

\* shard directories under the root; a store that would create one more is
\* not taken
MaxShards == 2

\* ------------------------------------------------------------------------
\* Python values: a tag and a sequence, so that values of different types
\* compare unequal
\* ------------------------------------------------------------------------

None == [t |-> "none", v |-> <<>>]

PyBytes(b) == [t |-> "bytes", v |-> b]

PyStr(s) == [t |-> "str", v |-> s]

PyInt(n) == [t |-> "int", v |-> <<n>>]

PyBool(b) == [t |-> "bool", v |-> <<b>>]

PyList(l) == [t |-> "list", v |-> l]

\* items: a sequence of <<key, value>> pairs, in insertion order
PyDict(items) == [t |-> "dict", v |-> items]

\* a numpy array of pixel values
PyImage(px) == [t |-> "image", v |-> px]

PyTuple(a, b) == [t |-> "tuple", v |-> <<a, b>>]

\* what a call does: the exception it raises ("none": it returns) and the
\* value it returns
Ok(val) == [exc |-> "none", ret |-> val]

Raise(e) == [exc |-> e, ret |-> None]

\* ------------------------------------------------------------------------
\* Codecs
\* ------------------------------------------------------------------------

\* s.encode('latin1') on a sequence of code points
Latin1Encodable(s) == \A i \in 1..Len(s) : s[i] <= 255

Latin1Encode(s) ==
    IF Latin1Encodable(s) THEN Ok(PyBytes(s)) ELSE Raise("UnicodeEncodeError")

\* b.decode('latin1'): every byte is a code point
Latin1Decode(b) == PyStr(b)

HexDigit(n) == IF n < 10 THEN 48 + n ELSE 87 + n

\* json.dumps escapes (ensure_ascii): the quote, the backslash, the short
\* escapes and \uXXXX for everything outside ' '..'~'
EscapeChar(c) ==
    CASE c = 34 -> <<92, 34>>
      [] c = 92 -> <<92, 92>>
      [] c = 10 -> <<92, 110>>
      [] c = 13 -> <<92, 114>>
      [] c = 9  -> <<92, 116>>
      [] c = 8  -> <<92, 98>>
      [] c = 12 -> <<92, 102>>
      [] c < 32 \/ c > 126 ->
           <<92, 117, HexDigit(c \div 4096), HexDigit((c \div 256) % 16),
             HexDigit((c \div 16) % 16), HexDigit(c % 16)>>
      [] OTHER -> <<c>>

RECURSIVE EscapeText(_)
EscapeText(s) ==
    IF s = <<>> THEN <<>> ELSE EscapeChar(Head(s)) \o EscapeText(Tail(s))

RECURSIVE IntToText(_)
IntToText(n) ==
    IF n < 10 THEN <<48 + n>> ELSE IntToText(n \div 10) \o <<48 + (n % 10)>>

\* what json.dumps accepts: None, int, str, list, tuple and dict with str keys
RECURSIVE JsonSerializable(_)
JsonSerializable(j) ==
    CASE j.t \in {"none", "int", "str"} -> TRUE
      [] j.t \in {"list", "tuple"} ->
           \A i \in 1..Len(j.v) : JsonSerializable(j.v[i])
      [] j.t = "dict" ->
           \A i \in 1..Len(j.v) :
              j.v[i][1].t = "str" /\ JsonSerializable(j.v[i][2])
      [] OTHER -> FALSE

RECURSIVE DumpsText(_)
RECURSIVE DumpsItems(_, _)
DumpsItems(items, isDict) ==
    IF items = <<>> THEN <<>>
    ELSE (IF isDict
          THEN DumpsText(Head(items)[1]) \o <<58, 32>> \o DumpsText(Head(items)[2])
          ELSE DumpsText(Head(items)))
         \o (IF Len(items) > 1 THEN <<44, 32>> ELSE <<>>)
         \o DumpsItems(Tail(items), isDict)

DumpsText(j) ==
    CASE j.t = "none" -> <<110, 117, 108, 108>>
      [] j.t = "int"  -> IntToText(j.v[1])
      [] j.t = "str"  -> <<34>> \o EscapeText(j.v) \o <<34>>
      [] j.t \in {"list", "tuple"} -> <<91>> \o DumpsItems(j.v, FALSE) \o <<93>>
      [] j.t = "dict" -> <<123>> \o DumpsItems(j.v, TRUE) \o <<125>>

\* json.dumps(j)
JsonDumps(j) ==
    IF JsonSerializable(j) THEN Ok(PyStr(DumpsText(j))) ELSE Raise("TypeError")

\* ---- json.loads: a scanner over the text, by position

IsWs(c) == c \in {32, 9, 10, 13}

RECURSIVE SkipWs(_, _)
SkipWs(s, i) == IF i <= Len(s) /\ IsWs(s[i]) THEN SkipWs(s, i + 1) ELSE i

Fail == [ok |-> FALSE, val |-> None, pos |-> 0]

Parsed(val, pos) == [ok |-> TRUE, val |-> val, pos |-> pos]

IsHex(c) == c \in (48..57) \cup (97..102) \cup (65..70)

HexVal(c) == IF c <= 57 THEN c - 48 ELSE IF c >= 97 THEN c - 87 ELSE c - 55

\* the character a backslash escape stands for, -1 for none
Unescape(c) ==
    CASE c = 34 -> 34
      [] c = 92 -> 92
      [] c = 47 -> 47
      [] c = 110 -> 10
      [] c = 114 -> 13
      [] c = 116 -> 9
      [] c = 98 -> 8
      [] c = 102 -> 12
      [] OTHER -> -1

\* i: the position after the opening quote
RECURSIVE ParseString(_, _, _)
ParseString(s, i, acc) ==
    IF i > Len(s) THEN Fail
    ELSE IF s[i] = 34 THEN Parsed(PyStr(acc), i + 1)
    ELSE IF s[i] = 92 THEN
        IF i + 1 > Len(s) THEN Fail
        ELSE IF s[i + 1] = 117 THEN
            IF i + 5 <= Len(s) /\ \A k \in (i + 2)..(i + 5) : IsHex(s[k])
            THEN ParseString(s, i + 6,
                     Append(acc, HexVal(s[i + 2]) * 4096 + HexVal(s[i + 3]) * 256
                                 + HexVal(s[i + 4]) * 16 + HexVal(s[i + 5])))
            ELSE Fail
        ELSE IF Unescape(s[i + 1]) >= 0
        THEN ParseString(s, i + 2, Append(acc, Unescape(s[i + 1])))
        ELSE Fail
    ELSE IF s[i] < 32 THEN Fail
    ELSE ParseString(s, i + 1, Append(acc, s[i]))

\* a number without sign, fraction or exponent: 0, or digits not starting
\* with 0
RECURSIVE ParseInt(_, _, _)
ParseInt(s, i, acc) ==
    IF i <= Len(s) /\ s[i] \in 48..57
    THEN ParseInt(s, i + 1, acc * 10 + (s[i] - 48))
    ELSE Parsed(PyInt(acc), i)

\* d[k] = val on a dict kept as a sequence of pairs
RECURSIVE DictPut(_, _, _)
DictPut(items, k, val) ==
    IF items = <<>> THEN << <<k, val>> >>
    ELSE IF Head(items)[1] = k THEN << <<k, val>> >> \o Tail(items)
    ELSE <<Head(items)>> \o DictPut(Tail(items), k, val)

RECURSIVE ParseValue(_, _)
RECURSIVE ParseElems(_, _, _)
RECURSIVE ParseMembers(_, _, _)
ParseElems(s, i, acc) ==
    LET r == ParseValue(s, i)
        j == SkipWs(s, r.pos)
    IN  IF ~r.ok \/ j > Len(s) THEN Fail
        ELSE IF s[j] = 93 THEN Parsed(PyList(Append(acc, r.val)), j + 1)
        ELSE IF s[j] = 44 THEN ParseElems(s, SkipWs(s, j + 1), Append(acc, r.val))
        ELSE Fail

ParseMembers(s, i, acc) ==
    IF i > Len(s) \/ s[i] # 34 THEN Fail
    ELSE LET k == ParseString(s, i + 1, <<>>)
             c == SkipWs(s, k.pos)
             r == ParseValue(s, SkipWs(s, c + 1))
             j == SkipWs(s, r.pos)
         IN  IF ~k.ok \/ c > Len(s) THEN Fail
             ELSE IF s[c] # 58 \/ ~r.ok \/ j > Len(s) THEN Fail
             ELSE IF s[j] = 125 THEN Parsed(PyDict(DictPut(acc, k.val, r.val)), j + 1)
             ELSE IF s[j] = 44
             THEN ParseMembers(s, SkipWs(s, j + 1), DictPut(acc, k.val, r.val))
             ELSE Fail

ParseValue(s, i) ==
    IF i > Len(s) THEN Fail
    ELSE CASE s[i] = 34 -> ParseString(s, i + 1, <<>>)
           [] s[i] = 110 ->
                IF i + 3 <= Len(s) /\ SubSeq(s, i, i + 3) = <<110, 117, 108, 108>>
                THEN Parsed(None, i + 4) ELSE Fail
           [] s[i] = 48 -> Parsed(PyInt(0), i + 1)
           [] s[i] \in 49..57 -> ParseInt(s, i, 0)
           [] s[i] = 91 ->
                LET j == SkipWs(s, i + 1)
                IN  IF j <= Len(s) /\ s[j] = 93 THEN Parsed(PyList(<<>>), j + 1)
                    ELSE ParseElems(s, j, <<>>)
           [] s[i] = 123 ->
                LET j == SkipWs(s, i + 1)
                IN  IF j <= Len(s) /\ s[j] = 125 THEN Parsed(PyDict(<<>>), j + 1)
                    ELSE ParseMembers(s, j, <<>>)
           [] OTHER -> Fail

\* json.loads(text): one value, then nothing but whitespace
JsonLoads(text) ==
    LET r == ParseValue(text, SkipWs(text, 1))
    IN  IF r.ok /\ SkipWs(text, r.pos) = Len(text) + 1
        THEN Ok(r.val) ELSE Raise("JSONDecodeError")

\* ---- base64

B64Char(n) ==
    IF n < 26 THEN 65 + n
    ELSE IF n < 52 THEN 71 + n
    ELSE IF n < 62 THEN n - 4
    ELSE IF n = 62 THEN 43 ELSE 47

IsB64(c) == c \in (65..90) \cup (97..122) \cup (48..57) \cup {43, 47}

B64Index(c) ==
    IF c >= 97 THEN c - 71
    ELSE IF c >= 65 THEN c - 65
    ELSE IF c >= 48 THEN c + 4
    ELSE IF c = 43 THEN 62 ELSE 63

\* binascii.b2a_base64 without the newline
RECURSIVE B2A(_)
B2A(b) ==
    IF b = <<>> THEN <<>>
    ELSE IF Len(b) = 1
    THEN <<B64Char(b[1] \div 4), B64Char((b[1] % 4) * 16), 61, 61>>
    ELSE IF Len(b) = 2
    THEN <<B64Char(b[1] \div 4), B64Char((b[1] % 4) * 16 + b[2] \div 16),
           B64Char((b[2] % 16) * 4), 61>>
    ELSE <<B64Char(b[1] \div 4), B64Char((b[1] % 4) * 16 + b[2] \div 16),
           B64Char((b[2] % 16) * 4 + b[3] \div 64), B64Char(b[3] % 64)>>
         \o B2A(SubSeq(b, 4, Len(b)))

\* base64.encodebytes: lines of 57 input bytes, each ended by a newline
RECURSIVE EncodeBytes(_)
EncodeBytes(b) ==
    IF b = <<>> THEN <<>>
    ELSE IF Len(b) <= 57 THEN B2A(b) \o <<10>>
    ELSE B2A(SubSeq(b, 1, 57)) \o <<10>> \o EncodeBytes(SubSeq(b, 58, Len(b)))

RECURSIVE A2B(_)
A2B(x) ==
    IF Len(x) < 2 THEN <<>>
    ELSE IF Len(x) = 2 THEN <<x[1] * 4 + x[2] \div 16>>
    ELSE IF Len(x) = 3
    THEN <<x[1] * 4 + x[2] \div 16, (x[2] % 16) * 16 + x[3] \div 4>>
    ELSE <<x[1] * 4 + x[2] \div 16, (x[2] % 16) * 16 + x[3] \div 4,
           (x[3] % 4) * 64 + x[4]>>
         \o A2B(SubSeq(x, 5, Len(x)))

RECURSIVE Sextets(_)
Sextets(s) ==
    IF s = <<>> THEN <<>>
    ELSE (IF IsB64(Head(s)) THEN <<B64Index(Head(s))>> ELSE <<>>) \o Sextets(Tail(s))

Pads(s) == Cardinality({i \in 1..Len(s) : s[i] = 61})

\* base64.decodebytes: characters outside the alphabet are skipped, a last
\* group of 2 or 3 characters needs its padding
DecodeBytes(s) ==
    LET x == Sextets(s)
        r == Len(x) % 4
    IN  IF r = 1 \/ (r = 2 /\ Pads(s) < 2) \/ (r = 3 /\ Pads(s) < 1)
        THEN Raise("binascii.Error")
        ELSE Ok(PyBytes(A2B(x)))

\* ---- the image codec (cv2)

\* what JPEG keeps of a pixel value
JpegPixel(p) == (p \div 4) * 4

\* cv.imencode(imageFormat, image): ".jpg" is lossy, ".png" is not
ImEncode(imageFormat, image) ==
    IF image.t # "image" THEN Raise("cv2.error")
    ELSE IF imageFormat = ".jpg"
    THEN Ok(PyBytes(<<255, 216>> \o [i \in 1..Len(image.v) |-> JpegPixel(image.v[i])]))
    ELSE Ok(PyBytes(<<137, 80>> \o image.v))

\* cv.imdecode(np.frombuffer(b, np.uint8), -1): None when b holds no image
ImDecode(b) ==
    IF Len(b) >= 2 /\ SubSeq(b, 1, 2) \in {<<255, 216>>, <<137, 80>>}
    THEN PyImage(SubSeq(b, 3, Len(b)))
    ELSE None

\* ------------------------------------------------------------------------
\* The engine: one LMDB environment, a map from key bytes to value bytes
\* ------------------------------------------------------------------------

RECURSIVE Used(_)
Used(env) ==
    IF DOMAIN env = {} THEN 0
    ELSE LET k == CHOOSE x \in DOMAIN env : TRUE
         IN  Len(k) + Len(env[k]) + Used([x \in DOMAIN env \ {k} |-> env[x]])

EmptyEnv == [x \in {} |-> <<>>]

\* what a single-file call does: the exception, the value returned and the
\* environment it leaves
Done(exc, ret, env) == [exc |-> exc, ret |-> ret, env |-> env]

\* transaction.put(k, data) in a write transaction: the transaction is aborted
\* when the put raises, and an existing record is overwritten
EnvPut(env, k, data) ==
    LET rest == [x \in DOMAIN env \ {k} |-> env[x]]
    IN  IF Len(k) = 0 THEN Done("BadValsizeError", None, env)
        ELSE IF Used(rest) + Len(k) + Len(data) > MapSize
        THEN Done("MapFullError", None, env)
        ELSE Done("none", None, [x \in DOMAIN env \cup {k} |-> IF x = k THEN data ELSE env[x]])

\* transaction.get(k)
EnvGet(env, k) == IF k \in DOMAIN env THEN PyBytes(env[k]) ELSE None

\* ------------------------------------------------------------------------
\* LmdbSingleFileDataset: the typed calls on one shard
\* ------------------------------------------------------------------------

Single_keys(env) == {Latin1Decode(k) : k \in DOMAIN env}

\* transaction.put(key.encode('latin1'), data), k being what the encoding gave
PutEncoded(env, k, data) ==
    IF k.exc # "none" THEN Done(k.exc, None, env) ELSE EnvPut(env, k.ret.v, data.v)

Single_storeData(env, readOnly, key, data) ==
    IF readOnly THEN Done("ReadOnly", None, env)
    ELSE IF key.t # "str" THEN Done("KeyNotStr", None, env)
    ELSE IF data.t # "bytes" THEN Done("DataNotBytes", None, env)
    ELSE PutEncoded(env, Latin1Encode(key.v), data)

\* self.__noLock_storeData(key, <data>), data being what the encoding of the
\* argument gave: its exception, or the bytes
StoreEncoded(env, readOnly, key, data) ==
    IF data.exc # "none" THEN Done(data.exc, None, env)
    ELSE Single_storeData(env, readOnly, key, data.ret)

Single_storeString(env, readOnly, key, s) ==
    IF key.t # "str" THEN Done("KeyNotStr", None, env)
    ELSE IF s.t # "str" THEN Done("DataNotStr", None, env)
    ELSE StoreEncoded(env, readOnly, key, Latin1Encode(s.v))

\* self.__noLock_storeString(key, json.dumps(j)), s being what json.dumps gave
StoreDumped(env, readOnly, key, s) ==
    IF s.exc # "none" THEN Done(s.exc, None, env)
    ELSE Single_storeString(env, readOnly, key, s.ret)

Single_storeJson(env, readOnly, key, j) ==
    IF key.t # "str" THEN Done("KeyNotStr", None, env)
    ELSE StoreDumped(env, readOnly, key, JsonDumps(j))

Single_storeImage(env, readOnly, key, image, imageFormat) ==
    StoreEncoded(env, readOnly, key, ImEncode(imageFormat, image))

Single_storeDataJsonPair(env, readOnly, key, data, j) ==
    IF key.t # "str" THEN Done("KeyNotStr", None, env)
    ELSE IF data.t # "bytes" THEN Done("DataNotBytes", None, env)
    ELSE Single_storeJson(env, readOnly, key,
             PyDict(<< <<PyStr(<<100>>), PyStr(EncodeBytes(data.v))>>,
                       <<PyStr(<<106>>), j>> >>))

\* self.__noLock_storeDataJsonPair(key, <data>, j), data being what the
\* encoding of the argument gave
StoreEncodedJsonPair(env, readOnly, key, data, j) ==
    IF data.exc # "none" THEN Done(data.exc, None, env)
    ELSE Single_storeDataJsonPair(env, readOnly, key, data.ret, j)

Single_storeStringJsonPair(env, readOnly, key, s, j) ==
    IF key.t # "str" THEN Done("KeyNotStr", None, env)
    ELSE IF s.t # "str" THEN Done("DataNotStr", None, env)
    ELSE StoreEncodedJsonPair(env, readOnly, key, Latin1Encode(s.v), j)

Single_storeImageJsonPair(env, readOnly, key, image, j, imageFormat) ==
    StoreEncodedJsonPair(env, readOnly, key, ImEncode(imageFormat, image), j)

\* transaction.get(key.encode('latin1')), k being what the encoding gave
GetEncoded(env, k) ==
    IF k.exc # "none" THEN Raise(k.exc) ELSE Ok(EnvGet(env, k.ret.v))

Single_readData(env, key) ==
    IF key.t # "str" THEN Raise("KeyNotStr") ELSE GetEncoded(env, Latin1Encode(key.v))

\* "if data is None: return None" and "return data.decode('latin1')"
DecodedString(data) ==
    IF data.exc # "none" \/ data.ret = None THEN data ELSE Ok(Latin1Decode(data.ret.v))

Single_readString(env, key) ==
    IF key.t # "str" THEN Raise("KeyNotStr") ELSE DecodedString(Single_readData(env, key))

\* "if jsonString is None: return None" and "return json.loads(jsonString)"
LoadedJson(jsonString) ==
    IF jsonString.exc # "none" \/ jsonString.ret = None THEN jsonString
    ELSE JsonLoads(jsonString.ret.v)

Single_readJson(env, key) ==
    IF key.t # "str" THEN Raise("KeyNotStr") ELSE LoadedJson(Single_readString(env, key))

\* "if encodedImage is None: return None" and "return cv.imdecode(...)"
DecodedImage(encodedImage) ==
    IF encodedImage.exc # "none" \/ encodedImage.ret = None THEN encodedImage
    ELSE Ok(ImDecode(encodedImage.ret.v))

Single_readImage(env, key) == DecodedImage(Single_readData(env, key))

\* d[name] on a parsed JSON value
RECURSIVE DictFind(_, _)
DictFind(items, k) ==
    IF items = <<>> THEN Raise("KeyError")
    ELSE IF Head(items)[1] = k THEN Ok(Head(items)[2])
    ELSE DictFind(Tail(items), k)

Subscript(j, name) ==
    IF j.t = "dict" THEN DictFind(j.v, PyStr(name)) ELSE Raise("TypeError")

\* base64.decodebytes(<d>.encode('ascii')), d being what dataJsonPair["d"] gave
DecodedField(d) ==
    IF d.exc # "none" THEN d
    ELSE IF d.ret.t # "str" THEN Raise("AttributeError")
    ELSE IF \E i \in 1..Len(d.ret.v) : d.ret.v[i] > 127 THEN Raise("UnicodeEncodeError")
    ELSE DecodeBytes(d.ret.v)

\* "return data, j", data and j being what the two statements before gave
ReturnPair(data, j) ==
    IF data.exc # "none" THEN data
    ELSE IF j.exc # "none" THEN j
    ELSE Ok(PyTuple(data.ret, j.ret))

\* "if dataJsonPair is None: return None, None" and the statements after it
SplitPair(dataJsonPair) ==
    IF dataJsonPair.exc # "none" THEN dataJsonPair
    ELSE IF dataJsonPair.ret = None THEN Ok(PyTuple(None, None))
    ELSE ReturnPair(DecodedField(Subscript(dataJsonPair.ret, <<100>>)),
                    Subscript(dataJsonPair.ret, <<106>>))

Single_readDataJsonPair(env, key) ==
    IF key.t # "str" THEN Raise("KeyNotStr") ELSE SplitPair(Single_readJson(env, key))

\* "if data is None: return None, None" and "return data.decode('latin1'), j"
StringOfPair(pair) ==
    IF pair.exc # "none" THEN pair
    ELSE IF pair.ret.v[1] = None THEN Ok(PyTuple(None, None))
    ELSE Ok(PyTuple(Latin1Decode(pair.ret.v[1].v), pair.ret.v[2]))

Single_readStringJsonPair(env, key) ==
    IF key.t # "str" THEN Raise("KeyNotStr")
    ELSE StringOfPair(Single_readDataJsonPair(env, key))

\* "if encodedImage is None: return None, None" and "return image, j"
ImageOfPair(pair) ==
    IF pair.exc # "none" THEN pair
    ELSE IF pair.ret.v[1] = None THEN Ok(PyTuple(None, None))
    ELSE Ok(PyTuple(ImDecode(pair.ret.v[1].v), pair.ret.v[2]))

Single_readImageJsonPair(env, key) ==
    IF key.t # "str" THEN Raise("KeyNotStr")
    ELSE ImageOfPair(Single_readDataJsonPair(env, key))

\* transaction.delete(key.encode('latin1')): whether the record was there
DeleteEncoded(env, k) ==
    IF k.exc # "none" THEN Done(k.exc, None, env)
    ELSE IF Len(k.ret.v) = 0 THEN Done("BadValsizeError", None, env)
    ELSE Done("none", PyBool(k.ret.v \in DOMAIN env),
              [x \in DOMAIN env \ {k.ret.v} |-> env[x]])

Single_delete(env, key) ==
    IF key.t # "str" THEN Done("KeyNotStr", None, env)
    ELSE DeleteEncoded(env, Latin1Encode(key.v))

\* the store call of a variant; the payload of a pair variant is a tuple
Single_store(variant, env, readOnly, key, payload, imageFormat) ==
    CASE variant = "Data" -> Single_storeData(env, readOnly, key, payload)
      [] variant = "String" -> Single_storeString(env, readOnly, key, payload)
      [] variant = "Json" -> Single_storeJson(env, readOnly, key, payload)
      [] variant = "Image" -> Single_storeImage(env, readOnly, key, payload, imageFormat)
      [] variant = "DataJsonPair" ->
           Single_storeDataJsonPair(env, readOnly, key, payload.v[1], payload.v[2])
      [] variant = "StringJsonPair" ->
           Single_storeStringJsonPair(env, readOnly, key, payload.v[1], payload.v[2])
      [] variant = "ImageJsonPair" ->
           Single_storeImageJsonPair(env, readOnly, key, payload.v[1], payload.v[2], imageFormat)

Single_read(variant, env, key) ==
    CASE variant = "Data" -> Single_readData(env, key)
      [] variant = "String" -> Single_readString(env, key)
      [] variant = "Json" -> Single_readJson(env, key)
      [] variant = "Image" -> Single_readImage(env, key)
      [] variant = "DataJsonPair" -> Single_readDataJsonPair(env, key)
      [] variant = "StringJsonPair" -> Single_readStringJsonPair(env, key)
      [] variant = "ImageJsonPair" -> Single_readImageJsonPair(env, key)

\* ------------------------------------------------------------------------
\* LmdbDataset: shard names, discovery, the head
\* ------------------------------------------------------------------------

\* "lmdb_dataset_"
NamePrefix == <<108, 109, 100, 98, 95, 100, 97, 116, 97, 115, 101, 116, 95>>

RECURSIVE ZeroPad(_, _)
ZeroPad(digits, width) ==
    IF Len(digits) >= width THEN digits ELSE ZeroPad(<<48>> \o digits, width)

\* "lmdb_dataset_{:012d}".format(i)
ComposeLmdbDatasetName(i) == NamePrefix \o ZeroPad(IntToText(i), 12)

IsValidLmdbDatasetName(n) ==
    /\ Len(n) >= Len(NamePrefix)
    /\ SubSeq(n, 1, Len(NamePrefix)) = NamePrefix
    /\ Len(n) = 25

RECURSIVE DigitsValue(_, _)
DigitsValue(digits, acc) ==
    IF digits = <<>> THEN acc
    ELSE DigitsValue(Tail(digits), acc * 10 + (Head(digits) - 48))

\* int(n[13:]) of a name of decimal digits
ParseLmdbDatasetName(n) == DigitsValue(SubSeq(n, 14, Len(n)), 0)

Max(S) == CHOOSE x \in S : \A y \in S : y <= x

Min(S) == CHOOSE x \in S : \A y \in S : x <= y

RECURSIVE Sorted(_)
Sorted(S) == IF S = {} THEN <<>> ELSE <<Min(S)>> \o Sorted(S \ {Min(S)})

Range(q) == {q[i] : i \in 1..Len(q)}

\* the ids of the shard directories under the root, ascending
NoLock_findLmdbDatasets(dirs) ==
    Sorted({ParseLmdbDatasetName(n) : n \in {f \in DOMAIN dirs : IsValidLmdbDatasetName(f)}})

\* the dict of open shards, by id in insertion order; every handle in it is open
Handles(ids) == [t |-> "dict", v |-> ids]

\* the part of the state the shard manager works on: the directories under the
\* root, the open shards and the head index
Shards(dirs, ds, lastIdx) == [dirs |-> dirs, ds |-> ds, lastIdx |-> lastIdx]

\* lmdb.open(path, map_size) makes the directory when it is missing
NoLock_open(dirs, i) ==
    LET n == ComposeLmdbDatasetName(i)
    IN  IF n \in DOMAIN dirs THEN dirs
        ELSE [x \in DOMAIN dirs \cup {n} |-> IF x = n THEN EmptyEnv ELSE dirs[x]]

RECURSIVE OpenEach(_, _)
OpenEach(dirs, ids) ==
    IF ids = <<>> THEN dirs ELSE OpenEach(NoLock_open(dirs, Head(ids)), Tail(ids))

NoLock_closeAll(D) ==
    IF D.ds # None THEN Shards(D.dirs, None, None) ELSE D

NoLock_openAllHeadFirst(D) ==
    LET ids == NoLock_findLmdbDatasets(D.dirs)
    IN  Shards(OpenEach(D.dirs, ids), Handles(ids),
               IF Len(ids) > 0 THEN PyInt(Min(Range(ids))) ELSE None)

NoLock_openAll(D) ==
    LET ids == NoLock_findLmdbDatasets(D.dirs)
    IN  Shards(OpenEach(D.dirs, ids), Handles(ids),
               IF Len(ids) > 0 THEN PyInt(Max(Range(ids))) ELSE None)

NoLock_sameLmdbDatsetIndex(D) ==
    IF Len(D.ds.v) = 0 THEN 0
    ELSE IF D.lastIdx = None THEN Max(Range(D.ds.v)) ELSE D.lastIdx.v[1]

NoLock_firstFreeLmdbDatsetIndex(D) ==
    Min({i \in 0..Len(D.ds.v) : i \notin Range(D.ds.v)})

\* an index that starts at 1 on a root without shard
NoLock_nextLmdbDatsetIndexFromOne(D) ==
    IF Len(D.ds.v) = 0 THEN 1
    ELSE (IF D.lastIdx = None THEN Max(Range(D.ds.v)) ELSE D.lastIdx.v[1]) + 1

\* the index after the last one; only called on an open dataset
NoLock_nextLmdbDatsetIndex(D) ==
    IF Len(D.ds.v) = 0 THEN 0
    ELSE (IF D.lastIdx = None THEN Max(Range(D.ds.v)) ELSE D.lastIdx.v[1]) + 1

NoLock_openNextUnregistered(D) ==
    LET nextIdx == NoLock_nextLmdbDatsetIndex(D)
    IN  Shards(NoLock_open(D.dirs, nextIdx), D.ds, PyInt(nextIdx))

NoLock_openNext(D) ==
    LET nextIdx == NoLock_nextLmdbDatsetIndex(D)
    IN  Shards(NoLock_open(D.dirs, nextIdx),
               Handles(IF nextIdx \in Range(D.ds.v) THEN D.ds.v ELSE Append(D.ds.v, nextIdx)),
               PyInt(nextIdx))

\* the dataset with its head: a new shard is opened when there is none
NoLock_getHeadDataset(D) ==
    IF D.lastIdx = None THEN NoLock_openNext(D) ELSE D

\* ---- the key index, a dict from key to shard id

DictHasNot(d, k) == FALSE

DictHas(d, k) == \E i \in 1..Len(d.v) : d.v[i][1] = k

DictGet(d, k) == IF DictHas(d, k) THEN DictFind(d.v, k).ret ELSE None

DictPopNothing(d, k) == d

DictPop(d, k) == PyDict(SelectSeq(d.v, LAMBDA p : p[1] # k))

\* a, b: sequences of bytes, in the order of the engine's cursor
RECURSIVE LexLess(_, _)
LexLess(a, b) ==
    IF b = <<>> THEN FALSE
    ELSE IF a = <<>> THEN TRUE
    ELSE IF Head(a) # Head(b) THEN Head(a) < Head(b)
    ELSE LexLess(Tail(a), Tail(b))

RECURSIVE CursorOrder(_)
CursorOrder(S) ==
    IF S = {} THEN <<>>
    ELSE LET m == CHOOSE x \in S : \A y \in S \ {x} : LexLess(x, y)
         IN  <<m>> \o CursorOrder(S \ {m})

\* int(text) of a text without blanks or underscores: an optional sign, then
\* decimal digits
PyIntOfText(text) ==
    LET digits == IF text # <<>> /\ Head(text) \in {43, 45} THEN Tail(text) ELSE text
    IN  IF digits = <<>> \/ \E i \in 1..Len(digits) : digits[i] \notin 48..57
        THEN Raise("ValueError")
        ELSE Ok(PyInt((IF Head(text) = 45 THEN -1 ELSE 1) * DigitsValue(digits, 0)))

\* list.sort() of a list of ints
RECURSIVE SortedList(_)
SortedList(q) ==
    IF q = <<>> THEN <<>>
    ELSE LET n == CHOOSE n \in 1..Len(q) : \A m \in 1..Len(q) : q[n] <= q[m]
         IN  <<q[n]>> \o SortedList(SubSeq(q, 1, n - 1) \o SubSeq(q, n + 1, Len(q)))

\* the loop of __noLock_findLmdbDatasets over the entries of os.listdir
RECURSIVE ParsedEntries(_, _)
ParsedEntries(names, acc) ==
    IF names = <<>> THEN Ok(PyList(SortedList(acc)))
    ELSE IF ~IsValidLmdbDatasetName(Head(names)) THEN ParsedEntries(Tail(names), acc)
    ELSE IF PyIntOfText(SubSeq(Head(names), 14, Len(Head(names)))).exc # "none"
    THEN Raise("ValueError")
    ELSE ParsedEntries(Tail(names),
             Append(acc, PyIntOfText(SubSeq(Head(names), 14, Len(Head(names)))).ret.v[1]))

\* __noLock_findLmdbDatasets on a root with any entries: the ids, or what
\* int() raised
NoLock_findLmdbDatasetsAmong(names) == ParsedEntries(CursorOrder(names), <<>>)

\* keys[k] = i for every key k of shard i
RECURSIVE PutAll(_, _, _)
PutAll(items, ks, i) ==
    IF ks = <<>> THEN items
    ELSE PutAll(DictPut(items, Latin1Decode(Head(ks)), PyInt(i)), Tail(ks), i)

RECURSIVE Recalculated(_, _, _)
Recalculated(items, dirs, ids) ==
    IF ids = <<>> THEN items
    ELSE Recalculated(
             PutAll(items, CursorOrder(DOMAIN dirs[ComposeLmdbDatasetName(Head(ids))]), Head(ids)),
             dirs, Tail(ids))

NoLock_getDatasetContaining(K, D, key) ==
    IF K = None THEN Raise("AttributeError")
    ELSE LET i == DictGet(K, key)
         IN  IF i = None THEN Ok(None)
             ELSE IF i.v[1] \notin Range(D.ds.v) THEN Raise("KeyError")
             ELSE Ok(PyTuple(i, i))

\* "_, d = x": x must be a pair
Unpack(x) ==
    IF x.exc # "none" THEN x
    ELSE IF x.ret.t # "tuple" THEN Raise("TypeError")
    ELSE x

\* ------------------------------------------------------------------------
\* LmdbDataset: store, read, delete, rebuild on the index K and the shards D
\* ------------------------------------------------------------------------

\* what a dataset call does: the exception, the value returned, the index and
\* the shards it leaves, and the shard ids on which a put was issued
Result(exc, ret, K, D, puts) ==
    [exc |-> exc, ret |-> ret, keys |-> K, D |-> D, puts |-> puts]

WithEnv(D, i, env) ==
    Shards([D.dirs EXCEPT ![ComposeLmdbDatasetName(i)] = env], D.ds, D.lastIdx)

EnvOf(D, i) == D.dirs[ComposeLmdbDatasetName(i)]

\* whether a single-file store call got as far as transaction.put
PutIssued(r) == r.exc \in {"none", "MapFullError", "BadValsizeError"}

\* "self.__keys[key] = self.__lastLmdbDatasetIndex" once the put, which gave r
\* on the head of D, has returned; the exception of the put otherwise
RecordKey(K, D, key, puts, r) ==
    IF r.exc = "none"
    THEN Result("none", None, PyDict(DictPut(K.v, key, D.lastIdx)),
                WithEnv(D, D.lastIdx.v[1], r.env), Append(puts, D.lastIdx.v[1]))
    ELSE Result(r.exc, None, K, D,
                IF PutIssued(r) THEN Append(puts, D.lastIdx.v[1]) ELSE puts)

\* d.storeData(key, data) on the head d of D, and the index entry after it.
\* The image variants hand no imageFormat to the shard: it encodes as ".jpg".
StoreOnHead(variant, K, D, readOnly, key, payload, puts) ==
    RecordKey(K, D, key, puts,
              Single_store(variant, EnvOf(D, D.lastIdx.v[1]), readOnly, key, payload, ".jpg"))

\* "except lmdb.MapFullError": the next shard is opened and the put issued on
\* it, r being what the try block did
ExceptMapFull(variant, K, readOnly, key, payload, r) ==
    IF r.exc = "MapFullError"
    THEN StoreOnHead(variant, K, NoLock_openNext(r.D), readOnly, key, payload, r.puts)
    ELSE r

\* __noLock_storeData and its six siblings: the duplicate check, the put on the
\* head, one retry on a new shard when the map is full, the index entry
\* the store after the key was found to be new: the put on the head, the
\* retry and the index entry
NoLock_storeChecked(variant, K, D, readOnly, key, payload) ==
    IF D.ds = None THEN Result("NotOpened", None, K, D, <<>>)
    ELSE CHOOSE out \in
             {ExceptMapFull(variant, K, readOnly, key, payload, r) :
                r \in {StoreOnHead(variant, K, NoLock_getHeadDataset(D), readOnly, key,
                                   payload, <<>>)}} : TRUE

NoLock_store(variant, K, D, readOnly, key, payload) ==
    IF K = None THEN Result("TypeError", None, K, D, <<>>)
    ELSE IF DictHas(K, key) THEN Result("KeyExists", None, K, D, <<>>)
    ELSE NoLock_storeChecked(variant, K, D, readOnly, key, payload)

\* __noLock_readData and its six siblings
NoLock_read(variant, K, D, key) ==
    IF D.ds = None THEN Raise("NotOpened")
    ELSE LET c == Unpack(NoLock_getDatasetContaining(K, D, key))
         IN  IF c.exc # "none" THEN c
             ELSE Single_read(variant, EnvOf(D, c.ret.v[2].v[1]), key)

NoLock_delete(K, D, key) ==
    IF D.ds = None THEN Result("NotOpened", None, K, D, <<>>)
    ELSE LET c == Unpack(NoLock_getDatasetContaining(K, D, key))
             i == c.ret.v[2].v[1]
             r == Single_delete(EnvOf(D, i), key)
         IN  IF c.exc # "none" THEN Result(c.exc, None, K, D, <<>>)
             ELSE IF r.exc # "none" THEN Result(r.exc, None, K, D, <<>>)
             ELSE IF r.ret = PyBool(FALSE) THEN Result("none", PyBool(FALSE), K, D, <<>>)
             ELSE Result("none", PyBool(TRUE), DictPop(K, key), WithEnv(D, i, r.env), <<>>)

\* the index rebuilt from the open shards, in the order of the dict
NoLock_recalculatedKeysOfHead(D) ==
    PyDict(Recalculated(<<>>, D.dirs, IF D.lastIdx = None THEN <<>> ELSE <<D.lastIdx.v[1]>>))

\* the index __noLock_recalculateKeys builds: the shards of the dict in its
\* order, the keys of each shard in the order of its cursor
NoLock_recalculatedKeys(D) == PyDict(Recalculated(<<>>, D.dirs, D.ds.v))

\* json.dump(keys): the text of keys.json
SavedKeys(K) == DumpsText(K)

\* ------------------------------------------------------------------------
\* State
\* ------------------------------------------------------------------------

VARIABLES
    rootExists,             \* whether the root directory exists
    keysFile,               \* <<>>: no keys.json; <<text>>: its content
    shardDirs,              \* directory name -> environment, the shards on disk
    readOnly,               \* the instance's readOnly flag
    keys,                   \* self.__keys: None or the index
    lmdbDatasets,           \* self.__lmdbDatasets: None or the open shards
    lastLmdbDatasetIndex,   \* self.__lastLmdbDatasetIndex: None or the head id
    last,                   \* the last call: its arguments and what it did
    stored,                 \* the last successful store, while it stands, and
                            \* the payload of a store of its key rejected since
    written,                \* key -> what its last successful store wrote, until
                            \* a delete of the key returns True
    envs,                   \* shard id -> the LmdbSingleFileDataset the instance
                            \* made for it: whether its __lmdbEnv is set, and how
                            \* many times that environment was closed
    lock,                   \* self.__lock: 0, or the thread that holds it
    pc,                     \* thread -> where it is in its call of the dataset
    shardLocks,             \* thread -> the calls of shard methods its call has
                            \* made, and the shard whose lock it holds, if any
    roots,                  \* the roots given to a read-only view: each one the
                            \* shard directories under it, as shardDirs
    view                    \* the read-only view: its class, its list of open
                            \* shards (or None) and its keys (or None)

vars == <<rootExists, keysFile, shardDirs, readOnly, keys, lmdbDatasets,
          lastLmdbDatasetIndex, last, stored, written, envs, lock, pc, shardLocks,
          roots, view>>

\* the read-only view and its roots: left alone by the calls of LmdbDataset
views == <<roots, view>>

\* a view of the class kind that is not open
NoView(kind) == [kind |-> kind, datasets |-> None, keys |-> None]

\* the lock and the threads: left alone by a caller that is the only thread
threads == <<lock, pc, shardLocks>>

Threads == {1, 2}

\* the number of calls a thread makes
MaxCalls == 2

\* a thread that is in no call after n calls
Idle(n) ==
    [at |-> "idle", op |-> "", key |-> None, payload |-> None, exc |-> "none",
     raced |-> FALSE, calls |-> n]

\* a thread that has called no shard method in its call and holds the lock of
\* no shard
NoShardLock == [n |-> 0, holds |-> <<>>]

Cur == Shards(shardDirs, lmdbDatasets, lastLmdbDatasetIndex)

Call(op, variant, key, payload, imageFormat, exc, ret, puts) ==
    [op |-> op, variant |-> variant, key |-> key, payload |-> payload,
     imageFormat |-> imageFormat, exc |-> exc, ret |-> ret, puts |-> puts]

NoStore == [key |-> None, variant |-> "", payload |-> None, rejected |-> <<>>,
            retried |-> FALSE]

Variants ==
    {"Data", "String", "Json", "Image", "DataJsonPair", "StringJsonPair", "ImageJsonPair"}

ImageVariants == {"Image", "ImageJsonPair"}

\* LmdbDataset(path, mapSize, readOnly): nothing is read or opened yet
Init ==
    /\ rootExists = FALSE
    /\ keysFile = <<>>
    /\ shardDirs = EmptyEnv
    /\ readOnly = FALSE
    /\ keys = None
    /\ lmdbDatasets = None
    /\ lastLmdbDatasetIndex = None
    /\ last = Call("init", "", None, None, "", "none", None, <<>>)
    /\ stored = NoStore
    /\ written = EmptyEnv
    /\ envs = EmptyEnv
    /\ lock = 0
    /\ pc = [t \in Threads |-> Idle(0)]
    /\ shardLocks = [t \in Threads |-> NoShardLock]
    /\ roots = <<>>
    /\ view = NoView("")

\* ------------------------------------------------------------------------
\* Actions: the public calls
\* ------------------------------------------------------------------------

\* a new instance on the same root, made once the previous one holds no
\* open shard
New(ro) ==
    /\ lmdbDatasets = None
    /\ readOnly' = ro
    /\ keys' = None
    /\ lastLmdbDatasetIndex' = None
    /\ last' = Call("new", "", None, PyBool(ro), "", "none", None, <<>>)
    /\ stored' = NoStore
    /\ envs' = EmptyEnv
    /\ UNCHANGED <<rootExists, keysFile, shardDirs, lmdbDatasets, written>>

\* a shard directory made under the root by another program, while no
\* instance is open
Mkdir(i) ==
    /\ lmdbDatasets = None
    /\ ComposeLmdbDatasetName(i) \notin DOMAIN shardDirs
    /\ rootExists' = TRUE
    /\ shardDirs' = NoLock_open(shardDirs, i)
    /\ last' = Call("mkdir", "", PyInt(i), None, "", "none", None, <<>>)
    /\ stored' = NoStore
    /\ UNCHANGED <<keysFile, readOnly, keys, lmdbDatasets, lastLmdbDatasetIndex, written,
                   envs>>

\* keys.json removed by another program while no instance is open
Unlink ==
    /\ lmdbDatasets = None
    /\ keysFile # <<>>
    /\ keysFile' = <<>>
    /\ last' = Call("unlink", "", None, None, "", "none", None, <<>>)
    /\ stored' = NoStore
    /\ UNCHANGED <<rootExists, shardDirs, readOnly, keys, lmdbDatasets, lastLmdbDatasetIndex,
                   written, envs>>

\* __noLock_findLmdbDatasets called on the root as it is
FindLmdbDatasets ==
    /\ last' = Call("findLmdbDatasets", "", None, None, "",
                    NoLock_findLmdbDatasetsAmong(DOMAIN shardDirs).exc,
                    NoLock_findLmdbDatasetsAmong(DOMAIN shardDirs).ret, <<>>)
    /\ UNCHANGED <<rootExists, keysFile, shardDirs, readOnly, keys, lmdbDatasets,
                   lastLmdbDatasetIndex, stored, written, envs>>

\* LmdbSingleFileDataset(path, ...).__enter__(): the environment is set
FreshHandle == [live |-> TRUE, closes |-> 0]

\* the handles after __noLock_open was called for the ids that have none in E
WithHandles(E, ds) ==
    IF ds = None THEN E
    ELSE [i \in Range(ds.v) |-> IF i \in DOMAIN E THEN E[i] ELSE FreshHandle]

\* LmdbSingleFileDataset.__exit__(): the environment is closed when it is set
CloseHandle(h) ==
    IF h.live THEN [live |-> FALSE, closes |-> h.closes + 1] ELSE h

\* the handles after the loop of __noLock_closeAll went through the first n
\* entries of the dict
ClosedUpTo(E, ds, n) ==
    IF ds = None THEN E
    ELSE [i \in DOMAIN E |->
            IF \E k \in 1..n : ds.v[k] = i THEN CloseHandle(E[i]) ELSE E[i]]

NoLock_loadNoKeys(file) == Ok(PyDict(<<>>))

\* __noLock_loadKeys: the index read from keys.json, empty without the file
NoLock_loadKeys(file) ==
    IF file # <<>> THEN JsonLoads(file[1]) ELSE Ok(PyDict(<<>>))

\* __enter__: the root is made, the index loaded, every shard found opened
Enter ==
    LET loaded == NoLock_loadKeys(keysFile)
        D == NoLock_openAll(NoLock_closeAll(Cur))
    IN  /\ rootExists' = TRUE
        /\ IF loaded.exc # "none"
           THEN /\ last' = Call("enter", "", None, None, "", loaded.exc, None, <<>>)
                /\ UNCHANGED <<keys, shardDirs, lmdbDatasets, lastLmdbDatasetIndex, envs>>
           ELSE /\ keys' = loaded.ret
                /\ shardDirs' = D.dirs
                /\ lmdbDatasets' = D.ds
                /\ envs' = WithHandles(EmptyEnv, D.ds)
                /\ lastLmdbDatasetIndex' = D.lastIdx
                /\ last' = Call("enter", "", None, None, "", "none", None, <<>>)
        /\ stored' = NoStore
        /\ UNCHANGED <<keysFile, readOnly, written>>

\* __exit__: every shard closed, then the index saved unless read-only
ExitSavingAlways ==
    LET D == NoLock_closeAll(Cur)
    IN  /\ lmdbDatasets' = D.ds
        /\ lastLmdbDatasetIndex' = D.lastIdx
        /\ envs' = ClosedUpTo(envs, lmdbDatasets, Len(lmdbDatasets.v))
        /\ IF ~rootExists
           THEN /\ last' = Call("exit", "", None, None, "", "FileNotFoundError", None, <<>>)
                /\ UNCHANGED keysFile
           ELSE /\ keysFile' = <<SavedKeys(keys)>>
                /\ last' = Call("exit", "", None, None, "", "none", None, <<>>)
        /\ stored' = NoStore
        /\ UNCHANGED <<rootExists, shardDirs, readOnly, keys, written>>

\* __exit__: the shards are closed, then a writable dataset saves its index
Exit ==
    LET D == NoLock_closeAll(Cur)
    IN  /\ lmdbDatasets' = D.ds
        /\ lastLmdbDatasetIndex' = D.lastIdx
        /\ envs' = ClosedUpTo(envs, lmdbDatasets, Len(lmdbDatasets.v))
        /\ IF readOnly
           THEN /\ last' = Call("exit", "", None, None, "", "none", None, <<>>)
                /\ UNCHANGED keysFile
           ELSE IF ~rootExists
           THEN /\ last' = Call("exit", "", None, None, "", "FileNotFoundError", None, <<>>)
                /\ UNCHANGED keysFile
           ELSE /\ keysFile' = <<SavedKeys(keys)>>
                /\ last' = Call("exit", "", None, None, "", "none", None, <<>>)
        /\ stored' = NoStore
        /\ UNCHANGED <<rootExists, shardDirs, readOnly, keys, written>>

\* __exit__ when the close of the f-th shard of the dict raises: the loop of
\* __noLock_closeAll stops there and the exception leaves __exit__; the call
\* is recorded with the id of that shard
ExitFailing(f) ==
    /\ lmdbDatasets # None
    /\ f \in 1..Len(lmdbDatasets.v)
    /\ envs[lmdbDatasets.v[f]].live
    /\ envs' = ClosedUpTo(envs, lmdbDatasets, f - 1)
    /\ last' = Call("exit", "", PyInt(lmdbDatasets.v[f]), None, "", "CloseError", None, <<>>)
    /\ stored' = NoStore
    /\ UNCHANGED <<rootExists, keysFile, shardDirs, readOnly, keys, lmdbDatasets,
                   lastLmdbDatasetIndex, written>>

\* what a store call leaves, r being what its body did
StoreDone(r, variant, key, payload, imageFormat) ==
    /\ Cardinality(DOMAIN r.D.dirs) <= MaxShards
    /\ keys' = r.keys
    /\ shardDirs' = r.D.dirs
    /\ lmdbDatasets' = r.D.ds
    /\ lastLmdbDatasetIndex' = r.D.lastIdx
    /\ envs' = WithHandles(envs, r.D.ds)
    /\ last' = Call("store", variant, key, payload, imageFormat, r.exc, r.ret, r.puts)
    /\ stored' = IF r.exc = "none"
                 THEN [key |-> key, variant |-> variant, payload |-> payload,
                       rejected |-> <<>>,
                       retried |-> last.op = "delete" /\ last.ret = PyBool(TRUE)
                                       /\ last.key = key]
                 ELSE IF r.exc = "KeyExists" /\ key = stored.key
                 THEN [stored EXCEPT !.rejected = <<payload>>]
                 ELSE NoStore
    /\ written' = IF r.exc = "none"
                  THEN [k \in DOMAIN written \cup {key} |->
                          IF k = key THEN [variant |-> variant, payload |-> payload]
                          ELSE written[k]]
                  ELSE written
    /\ UNCHANGED <<rootExists, keysFile, readOnly>>

\* storeData, storeString, storeJson, storeImage, storeDataJsonPair,
\* storeStringJsonPair, storeImageJsonPair
Store(variant, key, payload, imageFormat) ==
    StoreDone(NoLock_store(variant, keys, Cur, readOnly, key, payload),
              variant, key, payload, imageFormat)

\* readData, readString, readJson, readImage, readDataJsonPair,
\* readStringJsonPair, readImageJsonPair
Read(variant, key) ==
    LET r == NoLock_read(variant, keys, Cur, key)
    IN  /\ last' = Call("read", variant, key, None, "", r.exc, r.ret, <<>>)
        /\ UNCHANGED <<rootExists, keysFile, shardDirs, readOnly, keys, lmdbDatasets,
                       lastLmdbDatasetIndex, stored, written, envs>>

Delete(key) ==
    LET r == NoLock_delete(keys, Cur, key)
    IN  /\ keys' = r.keys
        /\ shardDirs' = r.D.dirs
        /\ last' = Call("delete", "", key, None, "", r.exc, r.ret, <<>>)
        /\ stored' = NoStore
        /\ written' = IF r.exc = "none" /\ r.ret = PyBool(TRUE)
                      THEN [k \in DOMAIN written \ {key} |-> written[k]]
                      ELSE written
        /\ UNCHANGED <<rootExists, keysFile, readOnly, lmdbDatasets, lastLmdbDatasetIndex,
                       envs>>

\* a recalculateKeys that writes keys.json on a read-only dataset as well
RecalculateKeysSavingAlways ==
    /\ IF lmdbDatasets = None
       THEN /\ last' = Call("recalculateKeys", "", None, None, "", "AttributeError", None, <<>>)
            /\ UNCHANGED <<keys, keysFile>>
       ELSE /\ keys' = NoLock_recalculatedKeys(Cur)
            /\ keysFile' = <<SavedKeys(keys')>>
            /\ last' = Call("recalculateKeys", "", None, None, "", "none", None, <<>>)
    /\ stored' = NoStore
    /\ UNCHANGED <<rootExists, shardDirs, readOnly, lmdbDatasets, lastLmdbDatasetIndex,
                   written, envs>>


\* recalculateKeys: the index is replaced, then saved; the save raises on a
\* read-only dataset
RecalculateKeys ==
    /\ IF lmdbDatasets = None
       THEN /\ last' = Call("recalculateKeys", "", None, None, "", "AttributeError", None, <<>>)
            /\ UNCHANGED <<keys, keysFile>>
       ELSE /\ keys' = NoLock_recalculatedKeys(Cur)
            /\ IF readOnly
               THEN /\ last' = Call("recalculateKeys", "", None, None, "", "ReadOnly", None, <<>>)
                    /\ UNCHANGED keysFile
               ELSE /\ keysFile' = <<SavedKeys(keys')>>
                    /\ last' = Call("recalculateKeys", "", None, None, "", "none", None, <<>>)
    /\ stored' = NoStore
    /\ UNCHANGED <<rootExists, shardDirs, readOnly, lmdbDatasets, lastLmdbDatasetIndex,
                   written, envs>>

\* list(self.__keys.keys())
KeyList(K) == PyList([n \in 1..Len(K.v) |-> K.v[n][1]])

\* keys(recalculate): the index is rebuilt first when asked for
Keys(recalculate) ==
    /\ IF recalculate /\ lmdbDatasets = None
       THEN /\ last' = Call("keys", "", None, PyBool(recalculate), "", "AttributeError",
                            None, <<>>)
            /\ UNCHANGED <<keys, keysFile>>
       ELSE IF recalculate /\ readOnly
       THEN /\ keys' = NoLock_recalculatedKeys(Cur)
            /\ last' = Call("keys", "", None, PyBool(recalculate), "", "ReadOnly", None, <<>>)
            /\ UNCHANGED keysFile
       ELSE IF recalculate
       THEN /\ keys' = NoLock_recalculatedKeys(Cur)
            /\ keysFile' = <<SavedKeys(keys')>>
            /\ last' = Call("keys", "", None, PyBool(recalculate), "", "none",
                            KeyList(keys'), <<>>)
       ELSE IF keys = None
       THEN /\ last' = Call("keys", "", None, PyBool(recalculate), "", "AttributeError",
                            None, <<>>)
            /\ UNCHANGED <<keys, keysFile>>
       ELSE /\ last' = Call("keys", "", None, PyBool(recalculate), "", "none",
                            KeyList(keys), <<>>)
            /\ UNCHANGED <<keys, keysFile>>
    /\ stored' = IF keys' = keys THEN stored ELSE NoStore
    /\ UNCHANGED <<rootExists, shardDirs, readOnly, lmdbDatasets, lastLmdbDatasetIndex,
                   written, envs>>

\* ------------------------------------------------------------------------
\* Inputs and specifications
\* ------------------------------------------------------------------------

\* "a", "b"
GoodKeys == {PyStr(<<97>>), PyStr(<<98>>)}

\* a key that latin1 cannot encode; a key that is no string
BadKeys == {PyStr(<<8364>>), PyBytes(<<97>>)}

\* a record that fills a shard but for two bytes, and one no shard can hold
MediumData == PyBytes([i \in 1..(MapSize - 2) |-> 0])

BigData == PyBytes([i \in 1..(MapSize + 1) |-> 0])

\* the payloads of the life-cycle specification, stored as raw data: with the
\* one-byte keys, two records fit a shard only when both are small
Sizes == {PyBytes(<<1, 2>>), MediumData, BigData}

\* the payloads of the codec specification, two of each variant
Payloads(variant) ==
    CASE variant = "Data" -> {PyBytes(<<1, 2>>), PyStr(<<104>>)}
      [] variant = "String" -> {PyStr(<<104, 233>>), PyStr(<<8364>>)}
      [] variant = "Json" -> {PyList(<<PyInt(1), None>>), PyBytes(<<1>>)}
      [] variant = "Image" -> {PyImage(<<7, 8>>), PyImage(<<8, 8>>)}
      [] variant = "DataJsonPair" ->
           {PyTuple(PyBytes(<<1, 2>>), PyInt(1)), PyTuple(PyBytes(<<>>), PyStr(<<34>>))}
      [] variant = "StringJsonPair" ->
           {PyTuple(PyStr(<<104>>), None), PyTuple(PyStr(<<8364>>), None)}
      [] variant = "ImageJsonPair" ->
           {PyTuple(PyImage(<<7>>), PyInt(1)), PyTuple(PyImage(<<8>>), PyInt(1))}

ImageFormats(variant) == IF variant \in ImageVariants THEN {".jpg", ".png"} ELSE {""}

\* The life cycle of instances on one root: instances are made, opened
\* (again, too) and closed, read-only or not, and store raw data.
Next ==
    \/ \E ro \in BOOLEAN : New(ro) /\ UNCHANGED <<threads, views>>
    \/ Enter /\ UNCHANGED <<threads, views>>
    \/ Exit /\ UNCHANGED <<threads, views>>
    \/ \E key \in GoodKeys, payload \in {PyBytes(<<1, 2>>), MediumData} :
          Store("Data", key, payload, "") /\ UNCHANGED <<threads, views>>
    \/ \E key \in GoodKeys : Read("Data", key) /\ UNCHANGED <<threads, views>>
    \/ \E key \in GoodKeys : Delete(key) /\ UNCHANGED <<threads, views>>
    \/ RecalculateKeys /\ UNCHANGED <<threads, views>>
    \/ \E recalculate \in BOOLEAN : Keys(recalculate) /\ UNCHANGED <<threads, views>>

Spec == Init /\ [][Next]_vars

\* One writable instance, opened once on the empty root and not closed:
\* stores of raw data of every size under good and bad keys, reads, deletes
\* and rebuilds.
NextSession ==
    \/ lmdbDatasets = None /\ Enter /\ UNCHANGED <<threads, views>>
    \/ \E key \in GoodKeys \cup BadKeys, payload \in Sizes :
          Store("Data", key, payload, "") /\ UNCHANGED <<threads, views>>
    \/ \E variant \in {"Data", "DataJsonPair"}, key \in GoodKeys \cup BadKeys :
          Read(variant, key) /\ UNCHANGED <<threads, views>>
    \/ \E key \in GoodKeys \cup BadKeys : Delete(key) /\ UNCHANGED <<threads, views>>
    \/ lmdbDatasets # None /\ RecalculateKeys /\ UNCHANGED <<threads, views>>

SpecSession == Init /\ [][NextSession]_vars

\* Writable and read-only instances on one root, each opened once and closed
\* before the next is made: stores and reads, no delete.
NextReopen ==
    \/ \E ro \in BOOLEAN : last.op = "exit" /\ New(ro) /\ UNCHANGED <<threads, views>>
    \/ lmdbDatasets = None /\ last.op \in {"init", "new"} /\ Enter /\ UNCHANGED <<threads, views>>
    \/ lmdbDatasets # None /\ Exit /\ UNCHANGED <<threads, views>>
    \/ \E key \in GoodKeys, payload \in Sizes : Store("Data", key, payload, "") /\ UNCHANGED <<threads, views>>
    \/ \E key \in GoodKeys : Read("Data", key) /\ UNCHANGED <<threads, views>>

SpecReopen == Init /\ [][NextReopen]_vars

\* One writable instance, opened once on the empty root and not closed,
\* storing and reading every variant under the key "a"; a record stored under
\* "b" fills the head, so that the next store overflows.
NextCodec ==
    \/ lmdbDatasets = None /\ Enter /\ UNCHANGED <<threads, views>>
    \/ \E variant \in Variants :
          \E payload \in Payloads(variant), imageFormat \in ImageFormats(variant) :
             Store(variant, PyStr(<<97>>), payload, imageFormat) /\ UNCHANGED <<threads, views>>
    \/ Store("Data", PyStr(<<98>>), MediumData, "") /\ UNCHANGED <<threads, views>>
    \/ \E variant \in Variants : Read(variant, PyStr(<<97>>)) /\ UNCHANGED <<threads, views>>
    \/ \E key \in GoodKeys : Delete(key) /\ UNCHANGED <<threads, views>>

SpecCodec == Init /\ [][NextCodec]_vars

\* the ids another program may give to the directories it makes
GapIds == 0..MaxShards

\* Writable instances on a root where another program makes shard directories
\* while no instance is open: stores of raw data of every size.
NextGaps ==
    \/ \E i \in GapIds : Mkdir(i) /\ UNCHANGED <<threads, views>>
    \/ lmdbDatasets = None /\ Enter /\ UNCHANGED <<threads, views>>
    \/ lmdbDatasets # None /\ Exit /\ UNCHANGED <<threads, views>>
    \/ \E key \in GoodKeys, payload \in Sizes :
          Store("Data", key, payload, "") /\ UNCHANGED <<threads, views>>

SpecGaps == Init /\ [][NextGaps]_vars

\* One writable instance, opened once, with stores of raw data of every size
\* until the first close; a close may fail at any of the shards.
NextClose ==
    \/ last.op = "init" /\ Enter /\ UNCHANGED <<threads, views>>
    \/ \E key \in GoodKeys, payload \in Sizes :
          /\ \A i \in DOMAIN envs : envs[i].live
          /\ Store("Data", key, payload, "")
          /\ UNCHANGED <<threads, views>>
    \/ Exit /\ UNCHANGED <<threads, views>>
    \/ \E f \in 1..MaxShards : ExitFailing(f) /\ UNCHANGED <<threads, views>>

SpecClose == Init /\ [][NextClose]_vars

\* the open dataset has records and an empty index
IndexLost ==
    /\ lmdbDatasets # None
    /\ keys = PyDict(<<>>)
    /\ \E n \in DOMAIN shardDirs : DOMAIN shardDirs[n] # {}

\* A writable instance that stores and is closed, keys.json being removed
\* before the instance is opened again; the index is rebuilt when it is lost.
NextRecover ==
    \/ lmdbDatasets = None /\ last.op \in {"init", "unlink"} /\ Enter /\ UNCHANGED <<threads, views>>
    \/ \E key \in GoodKeys, payload \in Sizes :
          keysFile = <<>> /\ Store("Data", key, payload, "") /\ UNCHANGED <<threads, views>>
    \/ lmdbDatasets # None /\ Exit /\ UNCHANGED <<threads, views>>
    \/ Unlink /\ UNCHANGED <<threads, views>>
    \/ IndexLost /\ RecalculateKeys /\ UNCHANGED <<threads, views>>
    \/ \E key \in GoodKeys : Read("Data", key) /\ UNCHANGED <<threads, views>>

SpecRecover == Init /\ [][NextRecover]_vars

\* the entries a root may have: three shards, "keys.json", and names that are
\* not of a shard: "lmdb_dataset_1", "lmdb_dataset_00000000000x",
\* "lmdb_dataset_+00000000001", "lmdb_dataset_0000000000001"
RootEntries ==
    {ComposeLmdbDatasetName(0), ComposeLmdbDatasetName(1), ComposeLmdbDatasetName(2),
     <<107, 101, 121, 115, 46, 106, 115, 111, 110>>,
     NamePrefix \o <<49>>,
     NamePrefix \o ZeroPad(<<120>>, 12),
     NamePrefix \o <<43>> \o ZeroPad(<<49>>, 11),
     NamePrefix \o ZeroPad(<<49>>, 13)}

\* a root with any of the entries, before an instance is made on it
InitDiscover ==
    /\ rootExists = TRUE
    /\ keysFile = <<>>
    /\ shardDirs \in {[n \in S |-> EmptyEnv] : S \in SUBSET RootEntries}
    /\ readOnly = FALSE
    /\ keys = None
    /\ lmdbDatasets = None
    /\ lastLmdbDatasetIndex = None
    /\ last = Call("init", "", None, None, "", "none", None, <<>>)
    /\ stored = NoStore
    /\ written = EmptyEnv
    /\ envs = EmptyEnv
    /\ lock = 0
    /\ pc = [t \in Threads |-> Idle(0)]
    /\ shardLocks = [t \in Threads |-> NoShardLock]
    /\ roots = <<>>
    /\ view = NoView("")

NextDiscover == FindLmdbDatasets /\ UNCHANGED <<threads, views>>

SpecDiscover == InitDiscover /\ [][NextDiscover]_vars

\* the numbers of characters of the text of the index that json.dump may have
\* written when it stops before the end
CutPoints(K) == IF K = None THEN {} ELSE 0..(Len(SavedKeys(K)) - 1)

\* __exit__ of a writable dataset whose __noLock_saveKeys does not finish:
\* open(keysFilePath, 'w') has emptied keys.json and json.dump has written the
\* first n characters of the text of the index when the write fails or the
\* process ends
ExitInterrupted(n) ==
    LET D == NoLock_closeAll(Cur)
    IN  /\ lmdbDatasets # None /\ ~readOnly /\ rootExists
        /\ n \in CutPoints(keys)
        /\ lmdbDatasets' = D.ds
        /\ lastLmdbDatasetIndex' = D.lastIdx
        /\ envs' = ClosedUpTo(envs, lmdbDatasets, Len(lmdbDatasets.v))
        /\ keysFile' = <<SubSeq(SavedKeys(keys), 1, n)>>
        /\ last' = Call("exit", "", None, PyInt(n), "", "Interrupted", None, <<>>)
        /\ stored' = NoStore
        /\ UNCHANGED <<rootExists, shardDirs, readOnly, keys, written>>

\* One writable instance, opened, storing, closed and opened again; a close
\* may be cut in the middle of the save.
NextInterrupt ==
    \/ lmdbDatasets = None /\ last.op \in {"init", "exit"} /\ Enter /\ UNCHANGED <<threads, views>>
    \/ \E key \in GoodKeys, payload \in {PyBytes(<<1, 2>>), MediumData} :
          lmdbDatasets # None /\ Store("Data", key, payload, "") /\ UNCHANGED <<threads, views>>
    \/ lmdbDatasets # None /\ Exit /\ UNCHANGED <<threads, views>>
    \/ \E n \in CutPoints(keys) : ExitInterrupted(n) /\ UNCHANGED <<threads, views>>

SpecInterrupt == Init /\ [][NextInterrupt]_vars

\* ------------------------------------------------------------------------
\* Threads calling one instance

\* what the calls of the threads work on
dataset == <<rootExists, keysFile, shardDirs, readOnly, keys, lmdbDatasets,
             lastLmdbDatasetIndex, last, stored, written, envs>>

LockIsNotLookedAt == TRUE

\* threading.Lock: acquire() returns when no thread holds the lock
LockIsFree == lock = 0

\* the positions of a thread that is inside `with self.__lock:`
Inside == {"body", "checked", "done"}

\* the store of key is being called by thread u, which has not put it yet,
\* on the open dataset that has the key neither in its index nor in a shard
StoringNew(u, key) ==
    /\ pc[u].op = "store" /\ pc[u].key = key
    /\ pc[u].at \in {"waiting", "body", "checked"}
    /\ lmdbDatasets # None /\ keys # None /\ ~DictHas(keys, key)
    /\ \A n \in DOMAIN shardDirs : Latin1Encode(key.v).ret.v \notin DOMAIN shardDirs[n]

\* thread t calls a public method and reaches its `with self.__lock:`
Invoke(t, op, key, payload) ==
    /\ pc[t].at = "idle"
    /\ pc[t].calls < MaxCalls
    /\ pc' = [u \in Threads |->
                IF u = t
                THEN [at |-> "waiting", op |-> op, key |-> key, payload |-> payload,
                      exc |-> "none", calls |-> pc[t].calls + 1,
                      raced |-> op = "store" /\ \E w \in Threads \ {t} : StoringNew(w, key)]
                ELSE IF op = "store" /\ StoringNew(u, key)
                THEN [pc[u] EXCEPT !.raced = TRUE]
                ELSE pc[u]]
    /\ UNCHANGED <<dataset, lock>>

\* __enter__ of the lock
Acquire(t) ==
    /\ pc[t].at = "waiting"
    /\ LockIsFree
    /\ lock' = t
    /\ pc' = [pc EXCEPT ![t].at = "body"]
    /\ UNCHANGED dataset

\* the thread after the body of its call
Returned(t) == [pc EXCEPT ![t].at = "done", ![t].exc = last'.exc]

T_Enter(t) ==
    /\ pc[t].at = "body" /\ pc[t].op = "enter"
    /\ Enter
    /\ pc' = Returned(t)
    /\ UNCHANGED lock

T_Exit(t) ==
    /\ pc[t].at = "body" /\ pc[t].op = "exit"
    /\ Exit
    /\ pc' = Returned(t)
    /\ UNCHANGED lock

\* `if key in self.__keys: raise Exception("Key already exists")`
T_StoreCheck(t) ==
    /\ pc[t].at = "body" /\ pc[t].op = "store"
    /\ IF keys = None \/ DictHas(keys, pc[t].key)
       THEN /\ Store("Data", pc[t].key, pc[t].payload, "")
            /\ pc' = Returned(t)
       ELSE /\ pc' = [pc EXCEPT ![t].at = "checked"]
            /\ UNCHANGED dataset
    /\ UNCHANGED lock

\* the rest of __noLock_storeData
T_StorePut(t) ==
    /\ pc[t].at = "checked"
    /\ \E r \in {NoLock_storeChecked("Data", keys, Cur, readOnly, pc[t].key, pc[t].payload)} :
          StoreDone(r, "Data", pc[t].key, pc[t].payload, "")
    /\ pc' = Returned(t)
    /\ UNCHANGED lock

T_Read(t) ==
    /\ pc[t].at = "body" /\ pc[t].op = "read"
    /\ Read("Data", pc[t].key)
    /\ pc' = Returned(t)
    /\ UNCHANGED lock

T_Delete(t) ==
    /\ pc[t].at = "body" /\ pc[t].op = "delete"
    /\ Delete(pc[t].key)
    /\ pc' = Returned(t)
    /\ UNCHANGED lock

T_RecalculateKeys(t) ==
    /\ pc[t].at = "body" /\ pc[t].op = "recalculateKeys"
    /\ RecalculateKeys
    /\ pc' = Returned(t)
    /\ UNCHANGED lock

T_Keys(t) ==
    /\ pc[t].at = "body" /\ pc[t].op = "keys"
    /\ Keys(FALSE)
    /\ pc' = Returned(t)
    /\ UNCHANGED lock

\* a release that is skipped when the body raised
ReleaseUnlessRaised(t) ==
    /\ pc[t].at = "done"
    /\ lock' = IF pc[t].exc = "none" THEN 0 ELSE lock
    /\ pc' = [pc EXCEPT ![t] = IF pc[t].raced THEN [pc[t] EXCEPT !.at = "idle"]
                                ELSE Idle(pc[t].calls)]
    /\ UNCHANGED dataset

\* __exit__ of the lock, whether the body returned or raised
Release(t) ==
    /\ pc[t].at = "done"
    /\ lock' = 0
    /\ pc' = [pc EXCEPT ![t] = IF pc[t].raced THEN [pc[t] EXCEPT !.at = "idle"]
                                ELSE Idle(pc[t].calls)]
    /\ UNCHANGED dataset

\* the payloads the threads store: each fits in an empty shard
ThreadData == {PyBytes(<<1, 2>>), MediumData}

\* Two threads calling one writable instance.
NextThreads ==
    \/ \E t \in Threads : lmdbDatasets = None /\ Invoke(t, "enter", None, None) /\ UNCHANGED <<views, shardLocks>>
    \/ \E t \in Threads, op \in {"exit", "recalculateKeys", "keys"} :
          Invoke(t, op, None, None) /\ UNCHANGED <<views, shardLocks>>
    \/ \E t \in Threads, op \in {"read", "delete"} :
          Invoke(t, op, PyStr(<<97>>), None) /\ UNCHANGED <<views, shardLocks>>
    \/ \E t \in Threads, key \in GoodKeys, payload \in ThreadData :
          Invoke(t, "store", key, payload) /\ UNCHANGED <<views, shardLocks>>
    \/ \E t \in Threads : Acquire(t) /\ UNCHANGED <<views, shardLocks>>
    \/ \E t \in Threads : T_Enter(t) /\ UNCHANGED <<views, shardLocks>>
    \/ \E t \in Threads : T_Exit(t) /\ UNCHANGED <<views, shardLocks>>
    \/ \E t \in Threads : T_StoreCheck(t) /\ UNCHANGED <<views, shardLocks>>
    \/ \E t \in Threads : T_StorePut(t) /\ UNCHANGED <<views, shardLocks>>
    \/ \E t \in Threads : T_Read(t) /\ UNCHANGED <<views, shardLocks>>
    \/ \E t \in Threads : T_Delete(t) /\ UNCHANGED <<views, shardLocks>>
    \/ \E t \in Threads : T_RecalculateKeys(t) /\ UNCHANGED <<views, shardLocks>>
    \/ \E t \in Threads : T_Keys(t) /\ UNCHANGED <<views, shardLocks>>
    \/ \E t \in Threads : Release(t) /\ UNCHANGED <<views, shardLocks>>

SpecThreads == Init /\ [][NextThreads]_vars

\* ---- the locks of the shards

\* key.encode('latin1') of a key that is a string latin1 encodes
KeyOfRecord(key) == Latin1Encode(key.v).ret.v

\* the head a store puts on: the head of the dataset, or the shard
\* __noLock_getHeadDataset opens when there is none
HeadOfStore(D) ==
    IF D.lastIdx = None THEN NoLock_nextLmdbDatsetIndex(D) ELSE D.lastIdx.v[1]

\* whether the put of the record on the shard i raises MapFullError
PutOverflows(D, i, k, data) ==
    /\ ComposeLmdbDatasetName(i) \in DOMAIN D.dirs
    /\ Used([x \in DOMAIN EnvOf(D, i) \ {k} |-> EnvOf(D, i)[x]]) + Len(k) + Len(data) > MapSize

\* the shards a store calls after the key was found to be new: __enter__ of
\* the head when it is made, storeData on the head, and after MapFullError
\* __enter__ and storeData of the next shard
StoreShardCalls(D, h, k, data) ==
    IF D.ds = None THEN <<>>
    ELSE (IF D.lastIdx = None THEN <<h>> ELSE <<>>) \o <<h>>
         \o (IF PutOverflows(D, h, k, data) THEN <<h + 1, h + 1>> ELSE <<>>)

\* the shards whose public methods the body of a call calls, in the order of
\* the calls; each of these methods is `with self.__lock:` of the shard
ShardCallsOf(op, key, payload) ==
    IF op = "enter"
    THEN IF NoLock_loadKeys(keysFile).exc # "none" THEN <<>>
         ELSE (IF lmdbDatasets = None THEN <<>> ELSE lmdbDatasets.v)
              \o NoLock_findLmdbDatasets(shardDirs)
    ELSE IF op \in {"exit", "recalculateKeys"}
    THEN IF lmdbDatasets = None THEN <<>> ELSE lmdbDatasets.v
    ELSE IF op \in {"read", "delete"}
    THEN IF /\ lmdbDatasets # None /\ keys # None /\ DictHas(keys, key)
            /\ DictGet(keys, key).v[1] \in Range(lmdbDatasets.v)
         THEN <<DictGet(keys, key).v[1]>> ELSE <<>>
    ELSE IF op = "store"
    THEN StoreShardCalls(Cur, HeadOfStore(Cur), KeyOfRecord(key), payload.v)
    ELSE <<>>

\* a thread that waits for the lock of a shard it holds itself never gets it
ShardLockIsFree(i) == \A u \in Threads : shardLocks[u].holds # <<i>>

\* where the body of the call of a thread calls the shards
AtShardCalls(t) == pc[t].at = (IF pc[t].op = "store" THEN "checked" ELSE "body")

\* thread t, in the body of its call, calls the next shard method and enters
\* the `with self.__lock:` of the shard
ShardAcquireOf(t, calls) ==
    /\ AtShardCalls(t)
    /\ shardLocks[t].holds = <<>>
    /\ shardLocks[t].n < Len(calls)
    /\ ShardLockIsFree(calls[shardLocks[t].n + 1])
    /\ shardLocks' = [shardLocks EXCEPT ![t].holds = <<calls[shardLocks[t].n + 1]>>]
    /\ UNCHANGED <<dataset, lock, pc>>

ShardAcquire(t) ==
    /\ AtShardCalls(t)
    /\ \E calls \in {ShardCallsOf(pc[t].op, pc[t].key, pc[t].payload)} :
          ShardAcquireOf(t, calls)

\* the shard method returns or raises: the lock of the shard is released
ShardRelease(t) ==
    /\ shardLocks[t].holds # <<>>
    /\ shardLocks' = [shardLocks EXCEPT ![t] = [n |-> shardLocks[t].n + 1, holds |-> <<>>]]
    /\ UNCHANGED <<dataset, lock, pc>>

\* the body of the call of thread t has made all its calls of the shards
CalledAll(t, calls) ==
    /\ shardLocks[t] = [n |-> Len(calls), holds |-> <<>>]
    /\ shardLocks' = [shardLocks EXCEPT ![t] = NoShardLock]

Called(t) ==
    /\ AtShardCalls(t)
    /\ \E calls \in {ShardCallsOf(pc[t].op, pc[t].key, pc[t].payload)} : CalledAll(t, calls)

\* a store is called only when the shard it may make is within MaxShards: a
\* store of ThreadData makes one shard at most
RoomForStore ==
    Cardinality(DOMAIN shardDirs)
        + Cardinality({u \in Threads : pc[u].op = "store" /\ pc[u].at # "idle"}) < MaxShards

\* the steps of thread t inside a call
ThreadStep(t) ==
    \/ Acquire(t) /\ UNCHANGED <<views, shardLocks>>
    \/ ShardAcquire(t) /\ UNCHANGED views
    \/ ShardRelease(t) /\ UNCHANGED views
    \/ Called(t) /\ T_Enter(t) /\ UNCHANGED views
    \/ Called(t) /\ T_Exit(t) /\ UNCHANGED views
    \/ T_StoreCheck(t) /\ UNCHANGED <<views, shardLocks>>
    \/ Called(t) /\ T_StorePut(t) /\ UNCHANGED views
    \/ Called(t) /\ T_Read(t) /\ UNCHANGED views
    \/ Called(t) /\ T_Delete(t) /\ UNCHANGED views
    \/ Called(t) /\ T_RecalculateKeys(t) /\ UNCHANGED views
    \/ Called(t) /\ T_Keys(t) /\ UNCHANGED views
    \/ Release(t) /\ UNCHANGED <<views, shardLocks>>

\* Two threads calling one writable instance, with the locks of the shards.
NextLocks ==
    \/ \E t \in Threads :
          lmdbDatasets = None /\ Invoke(t, "enter", None, None) /\ UNCHANGED <<views, shardLocks>>
    \/ \E t \in Threads, op \in {"exit", "recalculateKeys", "keys"} :
          Invoke(t, op, None, None) /\ UNCHANGED <<views, shardLocks>>
    \/ \E t \in Threads, op \in {"read", "delete"} :
          Invoke(t, op, PyStr(<<97>>), None) /\ UNCHANGED <<views, shardLocks>>
    \/ \E t \in Threads, key \in GoodKeys, payload \in ThreadData :
          RoomForStore /\ Invoke(t, "store", key, payload) /\ UNCHANGED <<views, shardLocks>>
    \/ \E t \in Threads : ThreadStep(t)

\* the scheduling is fair: a thread that can take a step again and again
\* takes it, the acquire of a lock that is free again and again included
FairLocks == \A t \in Threads : SF_vars(ThreadStep(t))

SpecLocks == Init /\ [][NextLocks]_vars /\ FairLocks

\* ------------------------------------------------------------------------
\* The read-only views (lmdbDatasetReadonly.py)
\* ------------------------------------------------------------------------

\* the fields of LmdbDataset and the files of its root, but for the last call
writable == <<rootExists, keysFile, shardDirs, readOnly, keys, lmdbDatasets,
              lastLmdbDatasetIndex, stored, written, envs>>

\* a call of a view, as it is recorded
ViewCall(op, key, r) == Call(op, "", key, None, "", r.exc, r.ret, <<>>)

\* LmdbSingleFileDatasetReadonly.open: the keys of the shard, by its cursor
SingleReadonly_keys(env) ==
    [n \in 1..Cardinality(DOMAIN env) |-> Latin1Decode(CursorOrder(DOMAIN env)[n])]

\* LmdbSingleFileDatasetReadonly.read_json, through read_string and read_data
SingleReadonly_read_json(env, key) ==
    LoadedJson(DecodedString(Single_readData(env, key)))

\* the loop over i of find_lmdb_datasets_paths under the r-th root: it stops
\* at the first id that has no directory
RECURSIVE PathsFrom(_, _, _)
PathsFrom(rs, r, i) ==
    IF ComposeLmdbDatasetName(i) \in DOMAIN rs[r]
    THEN << <<r, i>> >> \o PathsFrom(rs, r, i + 1) ELSE <<>>

RECURSIVE PathsOfRoots(_, _)
PathsOfRoots(rs, r) ==
    IF r > Len(rs) THEN <<>> ELSE PathsFrom(rs, r, 0) \o PathsOfRoots(rs, r + 1)

\* a search that returns the empty list when it finds no shard
Find_lmdb_datasets_pathsOrNothing(rs) == Ok(PyList(PathsOfRoots(rs, 1)))

\* find_lmdb_datasets_paths: the shard paths as <<root, id>>, root after root
Find_lmdb_datasets_paths(rs) ==
    IF PathsOfRoots(rs, 1) = <<>> THEN Raise("NoShards")
    ELSE Ok(PyList(PathsOfRoots(rs, 1)))

\* the records of the shard at a path
EnvAt(rs, p) == rs[p[1]][ComposeLmdbDatasetName(p[2])]

\* an open() that lists every key for the first shard of the list
RECURSIVE KeysDictOfFirstShard(_, _, _, _)
KeysDictOfFirstShard(items, rs, paths, n) ==
    IF n > Len(paths) THEN items
    ELSE KeysDictOfFirstShard(PutAll(items, CursorOrder(DOMAIN EnvAt(rs, paths[n])), 0),
                              rs, paths, n + 1)

\* LmdbDatasetReadonly.open: keys_dict[k] = i over enumerate(lmdb_datasets)
RECURSIVE KeysDict(_, _, _, _)
KeysDict(items, rs, paths, n) ==
    IF n > Len(paths) THEN items
    ELSE KeysDict(PutAll(items, CursorOrder(DOMAIN EnvAt(rs, paths[n])), n - 1),
                  rs, paths, n + 1)

\* the pairs (i, k) of the n-th shard of the list
PairsOf(n, ks) == [m \in 1..Len(ks) |-> PyTuple(PyInt(n - 1), ks[m])]

\* LmdbMultipleDatasetsReadonly.open: keys.append((i, k)) over
\* enumerate(lmdb_datasets)
RECURSIVE KeysList(_, _, _)
KeysList(rs, paths, n) ==
    IF n > Len(paths) THEN <<>>
    ELSE PairsOf(n, SingleReadonly_keys(EnvAt(rs, paths[n]))) \o KeysList(rs, paths, n + 1)

\* the view after open() found the paths
Opened_view(kind, rs, paths) ==
    [kind |-> kind, datasets |-> PyList(paths),
     keys |-> IF kind = "single" THEN PyDict(KeysDict(<<>>, rs, paths, 1))
              ELSE PyList(KeysList(rs, paths, 1))]

\* what open() of the two classes does with what find_lmdb_datasets_paths gave
OpenFound(op, found) ==
    /\ last' = ViewCall(op, None, Ok(None))
    /\ view' = Opened_view(view.kind, roots, found.ret.v)

\* LmdbDatasetReadonly.open
Readonly_open ==
    /\ view.kind = "single"
    /\ IF view.datasets # None
       THEN last' = ViewCall("open", None, Raise("AlreadyOpen")) /\ UNCHANGED view
       ELSE IF Find_lmdb_datasets_paths(roots).exc # "none"
       THEN last' = ViewCall("open", None, Find_lmdb_datasets_paths(roots)) /\ UNCHANGED view
       ELSE OpenFound("open", Find_lmdb_datasets_paths(roots))
    /\ UNCHANGED <<writable, roots>>

\* LmdbDatasetReadonly.close
Readonly_close ==
    /\ view.kind = "single"
    /\ IF view.datasets = None
       THEN last' = ViewCall("close", None, Raise("TypeError")) /\ UNCHANGED view
       ELSE last' = ViewCall("close", None, Ok(None)) /\ view' = NoView(view.kind)
    /\ UNCHANGED <<writable, roots>>

\* LmdbDatasetReadonly.keys
Readonly_keys ==
    /\ view.kind = "single"
    /\ last' = ViewCall("keys", None,
                        IF view.keys = None THEN Raise("AttributeError")
                        ELSE Ok(KeyList(view.keys)))
    /\ UNCHANGED <<writable, roots, view>>

\* d.read_json(key) of the shard the key is listed for, (None, None) for a key
\* that is not listed
ReadListed(i, key) ==
    IF i = None THEN Ok(PyTuple(None, None))
    ELSE SingleReadonly_read_json(EnvAt(roots, view.datasets.v[i.v[1] + 1]), key)

\* LmdbDatasetReadonly.read_json
Readonly_read_json(key) ==
    /\ view.kind = "single"
    /\ last' = ViewCall("read_json", key,
                        IF view.keys = None THEN Raise("AttributeError")
                        ELSE ReadListed(DictGet(view.keys, key), key))
    /\ UNCHANGED <<writable, roots, view>>

\* LmdbMultipleDatasetsReadonly.open
Multiple_open ==
    /\ view.kind = "multi"
    /\ IF view.datasets # None
       THEN last' = ViewCall("open", None, Raise("AlreadyOpen")) /\ UNCHANGED view
       ELSE IF Find_lmdb_datasets_paths(roots).exc # "none"
       THEN last' = ViewCall("open", None, Find_lmdb_datasets_paths(roots)) /\ UNCHANGED view
       ELSE OpenFound("open", Find_lmdb_datasets_paths(roots))
    /\ UNCHANGED <<writable, roots>>

\* LmdbMultipleDatasetsReadonly.close
Multiple_close ==
    /\ view.kind = "multi"
    /\ IF view.datasets = None
       THEN last' = ViewCall("close", None, Raise("TypeError")) /\ UNCHANGED view
       ELSE last' = ViewCall("close", None, Ok(None)) /\ view' = NoView(view.kind)
    /\ UNCHANGED <<writable, roots>>

\* LmdbMultipleDatasetsReadonly.keys: the list, or None when not open
Multiple_keys ==
    /\ view.kind = "multi"
    /\ last' = ViewCall("keys", None, Ok(view.keys))
    /\ UNCHANGED <<writable, roots, view>>

\* LmdbMultipleDatasetsReadonly.get_dataset_containing and read_json, the key
\* being the pair (i, k) with i >= 0
Multiple_read_json(i, k) ==
    /\ view.kind = "multi"
    /\ last' = ViewCall("read_json", PyTuple(PyInt(i), k),
                        IF view.datasets = None THEN Raise("TypeError")
                        ELSE IF i >= Len(view.datasets.v) THEN Ok(PyTuple(None, None))
                        ELSE SingleReadonly_read_json(EnvAt(roots, view.datasets.v[i + 1]), k))
    /\ UNCHANGED <<writable, roots, view>>

\* ---- the roots of the views

\* the keys and the values of the records in the roots of the views: "a", "b",
\* "c", and the JSON texts "1" and "2"
ViewKeys == {<<97>>, <<98>>, <<99>>}

ViewValues == {<<49>>, <<50>>}

\* the shards with at most n records under the keys K
ViewEnvs(K, n) ==
    UNION {[S -> ViewValues] : S \in {T \in SUBSET K : Cardinality(T) <= n}}

\* the roots with shards of the ids I
ViewRoots(I, E) ==
    UNION {[{ComposeLmdbDatasetName(i) : i \in J} -> E] : J \in SUBSET I}

\* no LmdbDataset is made
NoDataset ==
    /\ rootExists = FALSE
    /\ keysFile = <<>>
    /\ shardDirs = EmptyEnv
    /\ readOnly = FALSE
    /\ keys = None
    /\ lmdbDatasets = None
    /\ lastLmdbDatasetIndex = None
    /\ last = Call("init", "", None, None, "", "none", None, <<>>)
    /\ stored = NoStore
    /\ written = EmptyEnv
    /\ envs = EmptyEnv
    /\ lock = 0
    /\ pc = [t \in Threads |-> Idle(0)]
    /\ shardLocks = [t \in Threads |-> NoShardLock]

\* LmdbDatasetReadonly(path, open_on_init=False) on a root with shards of ids
\* among 0, 1, 2, written before
InitReadonly ==
    /\ NoDataset
    /\ roots \in {<<r>> : r \in ViewRoots({0, 1, 2}, ViewEnvs(ViewKeys, 2))}
    /\ view = NoView("single")

NextReadonly ==
    \/ Readonly_open /\ UNCHANGED threads
    \/ Readonly_close /\ UNCHANGED threads
    \/ Readonly_keys /\ UNCHANGED threads
    \/ \E k \in ViewKeys : Readonly_read_json(PyStr(k)) /\ UNCHANGED threads

SpecReadonly == InitReadonly /\ [][NextReadonly]_vars

\* LmdbMultipleDatasetsReadonly(paths, open_on_init=False) on one or two roots
\* with shards of ids among 0, 1, written before
InitMultiple ==
    /\ NoDataset
    /\ roots \in UNION {[1..n -> ViewRoots({0, 1}, ViewEnvs({<<97>>, <<98>>}, 1))] : n \in {1, 2}}
    /\ view = NoView("multi")

NextMultiple ==
    \/ Multiple_open /\ UNCHANGED threads
    \/ Multiple_close /\ UNCHANGED threads
    \/ Multiple_keys /\ UNCHANGED threads
    \/ \E i \in 0..3, k \in {<<97>>, <<98>>} : Multiple_read_json(i, PyStr(k)) /\ UNCHANGED threads

SpecMultiple == InitMultiple /\ [][NextMultiple]_vars

\* a view of either class
InitViews == InitReadonly \/ InitMultiple

NextViews == NextReadonly \/ NextMultiple

SpecViews == InitViews /\ [][NextViews]_vars

\* ------------------------------------------------------------------------
\* Properties
\* ------------------------------------------------------------------------

\* the dataset is open and holds an index
Opened == lmdbDatasets # None /\ keys # None

Indexed(K, key) == \E n \in 1..Len(K.v) : K.v[n][1] = key

IdOf(K, key) == K.v[CHOOSE n \in 1..Len(K.v) : K.v[n][1] = key][2].v[1]

KeyBytes(key) == Latin1Encode(key.v).ret.v

\* the shard i is on disk and holds a record under the key
Holds(dirs, i, key) ==
    /\ ComposeLmdbDatasetName(i) \in DOMAIN dirs
    /\ KeyBytes(key) \in DOMAIN dirs[ComposeLmdbDatasetName(i)]

InNoShard(dirs, key) == \A n \in DOMAIN dirs : KeyBytes(key) \notin DOMAIN dirs[n]

\* "not found", as the read of the variant is to return it
NotFound(variant) ==
    IF variant \in {"DataJsonPair", "StringJsonPair", "ImageJsonPair"}
    THEN PyTuple(None, None) ELSE None

\* C1: in every state of the open writable dataset started on an empty root,
\* every key of the index maps to the id of an open shard, and that shard
\* holds a record under the key.
IndexedKeysAreInOpenShards ==
    (Opened /\ ~readOnly) =>
        \A n \in 1..Len(keys.v) :
            /\ keys.v[n][2].v[1] \in Range(lmdbDatasets.v)
            /\ Holds(shardDirs, keys.v[n][2].v[1], keys.v[n][1])

\* two keys indexed in different shards, seen after a rebuild
IndexedKeysInTwoShards ==
    /\ Opened
    /\ last.op = "recalculateKeys"
    /\ Len(keys.v) = 2
    /\ keys.v[1][2] # keys.v[2][2]
    /\ IndexedKeysAreInOpenShards

\* C2: a store under a key that the index holds raises the key-exists error
\* and changes neither the index nor any shard, and a read of the key after
\* the rejected store still returns the payload of the first store.
DuplicateStoreIsRejected ==
    [][/\ (last'.op = "store" /\ Opened /\ Indexed(keys, last'.key)) =>
             /\ last'.exc = "KeyExists"
             /\ keys' = keys
             /\ shardDirs' = shardDirs
       /\ (/\ last'.op = "read"
           /\ last'.variant = "Data"
           /\ stored.rejected # <<>>
           /\ last'.key = stored.key) =>
             /\ last'.exc = "none"
             /\ last'.ret = stored.payload]_vars

\* a read returns the first payload after a store of another payload under
\* the same key was rejected
FirstPayloadReadAfterRejection ==
    /\ last.op = "read"
    /\ last.exc = "none"
    /\ stored.rejected # <<>>
    /\ stored.rejected[1] # stored.payload
    /\ last.key = stored.key
    /\ last.ret = stored.payload

\* C3: for every variant, a read of a key with the variant of the store that
\* has just succeeded under that key returns the payload stored, whichever
\* shard holds the record.
ReadReturnsStoredPayload ==
    (last.op = "read" /\ stored.key = last.key /\ stored.variant = last.variant) =>
        /\ last.exc = "none"
        /\ last.ret = stored.payload

\* C4: a read, on the open dataset, of a key that the index does not hold
\* raises nothing and returns "not found".
ReadOfAbsentKeyReturnsNotFound ==
    (last.op = "read" /\ Opened /\ last.key \in GoodKeys /\ ~Indexed(keys, last.key)) =>
        /\ last.exc = "none"
        /\ last.ret = NotFound(last.variant)

\* the head on which a store issues its first put: the shard 0 when the
\* dataset has no shard yet
HeadAtPut == IF lastLmdbDatasetIndex = None THEN 0 ELSE lastLmdbDatasetIndex.v[1]

UsedAtHead ==
    IF ComposeLmdbDatasetName(HeadAtPut) \in DOMAIN shardDirs
    THEN Used(shardDirs[ComposeLmdbDatasetName(HeadAtPut)]) ELSE 0

\* a store of raw data under a new key, that the head has no room for
Overflowing(key, payload) ==
    /\ Opened
    /\ key \in GoodKeys
    /\ payload.t = "bytes"
    /\ ~Indexed(keys, key)
    /\ UsedAtHead + Len(KeyBytes(key)) + Len(payload.v) > MapSize

\* C5: when the head has no room for the record of a store, exactly one
\* shard is opened, with the id after the greatest one, the put is issued
\* once more, on it, and when that put succeeds the index maps the key to the
\* new shard, which holds the record, and the old head holds none for the key.
OverflowOpensNextShardAndRetriesOnce ==
    [][(last'.op = "store" /\ Overflowing(last'.key, last'.payload)) =>
          /\ \A i \in Range(lmdbDatasets.v) : i <= HeadAtPut
          /\ Range(lmdbDatasets'.v) = Range(lmdbDatasets.v) \cup {HeadAtPut, HeadAtPut + 1}
          /\ DOMAIN shardDirs' = DOMAIN shardDirs \cup
                 {ComposeLmdbDatasetName(HeadAtPut), ComposeLmdbDatasetName(HeadAtPut + 1)}
          /\ last'.puts = <<HeadAtPut, HeadAtPut + 1>>
          /\ last'.exc = "none" =>
                /\ Indexed(keys', last'.key)
                /\ IdOf(keys', last'.key) = HeadAtPut + 1
                /\ ~Holds(shardDirs', HeadAtPut, last'.key)
                /\ shardDirs'[ComposeLmdbDatasetName(HeadAtPut + 1)][KeyBytes(last'.key)]
                       = last'.payload.v]_vars

\* a store that overflowed and succeeded on the new shard, next to a key of
\* the old head
StoredOnNextShard ==
    /\ last.op = "store"
    /\ last.exc = "none"
    /\ Len(last.puts) = 2
    /\ Len(keys.v) = 2
    /\ IdOf(keys, last.key) = last.puts[2]
    /\ Holds(shardDirs, last.puts[2], last.key)
    /\ ~Holds(shardDirs, last.puts[1], last.key)

\* the records written, as one environment
WrittenEnv ==
    [k \in {KeyBytes(key) : key \in DOMAIN written} |->
        written[CHOOSE key \in DOMAIN written : KeyBytes(key) = k].payload.v]

\* C6: when N >= 2 keys are stored whose records one shard cannot hold, there
\* is more than one shard on disk, and a read of any of the keys returns the
\* value stored, after the dataset is closed and opened again too.
RecordsOverflowAndSurviveReopen ==
    /\ (Cardinality(DOMAIN written) >= 2 /\ Used(WrittenEnv) > MapSize) =>
           Cardinality(DOMAIN shardDirs) > 1
    /\ (last.op = "read" /\ lmdbDatasets # None /\ last.key \in DOMAIN written) =>
           /\ last.exc = "none"
           /\ last.ret = written[last.key].payload

\* a read on an instance opened after the one that stored two keys in two
\* shards was closed: keys.json holds the index of both
ReadAfterReopen ==
    /\ last.op = "read"
    /\ Opened
    /\ Len(keys.v) = 2
    /\ keys.v[1][2] # keys.v[2][2]
    /\ keysFile = <<SavedKeys(keys)>>
    /\ stored = NoStore
    /\ Cardinality(DOMAIN written) = 2
    /\ Used(WrittenEnv) > MapSize
    /\ last.ret = written[last.key].payload

\* C7: a delete of a key that the index holds returns True and leaves the key
\* in no shard and not in the index, and the read of the key that follows
\* returns "not found".
DeleteRemovesPresentKey ==
    [][/\ (last'.op = "delete" /\ Opened /\ last'.key \in GoodKeys
              /\ Indexed(keys, last'.key)) =>
             /\ last'.exc = "none"
             /\ last'.ret = PyBool(TRUE)
             /\ ~Indexed(keys', last'.key)
             /\ InNoShard(shardDirs', last'.key)
       /\ (/\ last.op = "delete"
           /\ last.ret = PyBool(TRUE)
           /\ last'.op = "read"
           /\ last'.key = last.key) =>
             /\ last'.exc = "none"
             /\ last'.ret = NotFound(last'.variant)]_vars

\* C8: a delete, on the open dataset, of a key that the index does not hold
\* returns False, raises nothing and changes neither the index nor any shard.
DeleteOfAbsentKeyReturnsFalse ==
    [][(last'.op = "delete" /\ Opened /\ last'.key \in GoodKeys
           /\ ~Indexed(keys, last'.key)) =>
          /\ last'.exc = "none"
          /\ last'.ret = PyBool(FALSE)
          /\ keys' = keys
          /\ shardDirs' = shardDirs]_vars

\* C9: a delete of a key that the index maps to an open shard holding no
\* record for it removes the entry of the key from the index.
StaleEntryIsRemoved ==
    [][(/\ last'.op = "delete"
        /\ Opened
        /\ last'.key \in GoodKeys
        /\ Indexed(keys, last'.key)
        /\ IdOf(keys, last'.key) \in Range(lmdbDatasets.v)
        /\ ~Holds(shardDirs, IdOf(keys, last'.key), last'.key)) =>
          ~Indexed(keys', last'.key)]_vars

\* C10: when the record of a store fits neither the head nor an empty shard,
\* the store raises the map-full error after one put on the head and one on
\* the one shard it opened; the index is unchanged, no shard holds the key,
\* and the new shard is empty, open and the head.
FailedRetryLeavesEmptyHead ==
    [][(/\ last'.op = "store"
        /\ Overflowing(last'.key, last'.payload)
        /\ Len(KeyBytes(last'.key)) + Len(last'.payload.v) > MapSize) =>
          /\ last'.exc = "MapFullError"
          /\ last'.puts = <<HeadAtPut, HeadAtPut + 1>>
          /\ keys' = keys
          /\ InNoShard(shardDirs', last'.key)
          /\ DOMAIN shardDirs' = DOMAIN shardDirs \cup
                 {ComposeLmdbDatasetName(HeadAtPut), ComposeLmdbDatasetName(HeadAtPut + 1)}
          /\ shardDirs'[ComposeLmdbDatasetName(HeadAtPut + 1)] = EmptyEnv
          /\ Range(lmdbDatasets'.v) = Range(lmdbDatasets.v) \cup {HeadAtPut, HeadAtPut + 1}
          /\ lastLmdbDatasetIndex' = PyInt(HeadAtPut + 1)]_vars

\* a store failed on the head, which holds a record, and on the new shard,
\* which is the head now and empty
RetryFailedOnEmptyShard ==
    /\ last.op = "store"
    /\ last.exc = "MapFullError"
    /\ Len(last.puts) = 2
    /\ Len(keys.v) = 1
    /\ ~Indexed(keys, last.key)
    /\ lastLmdbDatasetIndex = PyInt(last.puts[2])
    /\ shardDirs[ComposeLmdbDatasetName(last.puts[2])] = EmptyEnv
    /\ last.puts[2] \in Range(lmdbDatasets.v)

\* C11: every put of a store goes to the shard with the greatest id of the
\* collection at that moment, the head is none only when the collection is
\* empty, and no store changes a shard that is not the one with the greatest
\* id.
PutsGoToTheHead ==
    [][/\ (lmdbDatasets # None /\ lastLmdbDatasetIndex = None) => Len(lmdbDatasets.v) = 0
       /\ (last'.op = "store" /\ lmdbDatasets # None) =>
             /\ \A n \in 1..Len(last'.puts) :
                   \A i \in Range(lmdbDatasets.v) : i <= last'.puts[n]
             /\ Len(last'.puts) = 2 => last'.puts[1] < last'.puts[2]
             /\ Len(last'.puts) > 0 =>
                   last'.puts[Len(last'.puts)] = Max(Range(lmdbDatasets'.v))
             /\ \A i \in Range(lmdbDatasets.v) :
                   (\E j \in Range(lmdbDatasets.v) : i < j) =>
                       shardDirs'[ComposeLmdbDatasetName(i)]
                           = shardDirs[ComposeLmdbDatasetName(i)]]_vars

\* a store on a dataset opened again on two shards put its record in the
\* second one
StoredInLastOfTwoShards ==
    /\ last.op = "store"
    /\ last.exc = "none"
    /\ last.puts = <<1>>
    /\ keysFile # <<>>
    /\ Range(lmdbDatasets.v) = {0, 1}
    /\ Holds(shardDirs, 1, last.key)
    /\ ~Holds(shardDirs, 0, last.key)

\* the ids of the shard directories under the root
ShardIds(dirs) == {ParseLmdbDatasetName(n) : n \in DOMAIN dirs}

\* C12: a shard the dataset creates gets id 0 when the root has no shard and
\* the greatest existing id plus one otherwise, so that the ids it creates
\* increase and never collide with an existing shard; the ids are 0..n-1 as
\* long as they were so before, and the gaps left by directories made by
\* another program are kept and not filled.
CreatedShardFollowsTheGreatestId ==
    [][last'.op # "mkdir" =>
          /\ ShardIds(shardDirs) \subseteq ShardIds(shardDirs')
          /\ \A i \in ShardIds(shardDirs') \ ShardIds(shardDirs) :
                /\ \A j \in ShardIds(shardDirs) : j < i
                /\ i = 0 \/ i - 1 \in ShardIds(shardDirs')
                /\ ShardIds(shardDirs) = {} =>
                      \A j \in 0..i : j \in ShardIds(shardDirs')
          /\ ShardIds(shardDirs) = 0..(Cardinality(ShardIds(shardDirs)) - 1) =>
                ShardIds(shardDirs') = 0..(Cardinality(ShardIds(shardDirs')) - 1)]_vars

ShardCreatedAfterGap ==
    /\ last.op = "store" /\ last.exc = "none" /\ last.puts = <<2, 3>>
    /\ ShardIds(shardDirs) = {2, 3}
    /\ Holds(shardDirs, 3, last.key)

\* C13: every call of store, read, delete, open, close, rebuild and keys holds
\* the lock of the dataset from before its body until after it: at most one
\* thread is inside a body, that thread holds the lock, and while it is inside,
\* no step of another thread changes the dataset, so that the calls take
\* effect one after another.
OneThreadInsideABody ==
    [][/\ \A t, u \in Threads :
             (pc'[t].at \in Inside /\ pc'[u].at \in Inside) => t = u
       /\ \A t \in Threads : pc'[t].at \in Inside => lock' = t
       /\ \A t \in Threads :
             (pc[t].at \in Inside /\ pc'[t] = pc[t]) => UNCHANGED dataset]_vars

StoreHoldsLockWhileDeleteWaits ==
    /\ pc[1].at = "checked" /\ lock = 1
    /\ pc[2].at = "waiting" /\ pc[2].op = "delete"
    /\ Indexed(keys, pc[2].key)

\* both threads have returned from stores of one key that was new when the
\* two calls were under way
Raced(t, u) ==
    /\ pc[t].raced /\ pc[u].raced
    /\ pc[t].at \in {"done", "idle"} /\ pc[u].at \in {"done", "idle"}
    /\ pc[t].key = pc[u].key

\* the store of t went through, that of u was refused
Won(t, u) ==
    /\ pc[t].exc = "none" /\ pc[u].exc = "KeyExists"
    /\ Indexed(keys, pc[t].key)
    /\ \A i \in ShardIds(shardDirs) :
          Holds(shardDirs, i, pc[t].key) <=> i = IdOf(keys, pc[t].key)
    /\ Holds(shardDirs, IdOf(keys, pc[t].key), pc[t].key)
    /\ shardDirs[ComposeLmdbDatasetName(IdOf(keys, pc[t].key))][KeyBytes(pc[t].key)]
          = pc[t].payload.v

\* C14: when two threads store the same new key at the same time on an open
\* dataset, one call succeeds and the other raises "Key already exists",
\* whatever the interleaving; the key is in one shard only, with the payload of
\* the call that succeeded, and the index maps the key to that shard.
OneOfTwoRacingStoresWins ==
    \A t, u \in Threads :
        (t # u /\ Raced(t, u)) => (Won(t, u) \/ Won(u, t))

RacingStoresOverflowed ==
    /\ Raced(1, 2) /\ Won(2, 1)
    /\ pc[1].payload # pc[2].payload
    /\ IdOf(keys, pc[2].key) = 1
    /\ pc[1].at = "idle" /\ pc[2].at = "idle"

\* C15: a store whose key is no string that latin1 can encode fails without
\* touching any shard: no shard is opened or created, also when the dataset
\* has no shard yet, and the contents of the shards and the index are as before.
InvalidStoreTouchesNoShard ==
    [][(Opened /\ last'.op = "store" /\ last'.key \in BadKeys) =>
          /\ last'.exc # "none"
          /\ shardDirs' = shardDirs
          /\ lmdbDatasets' = lmdbDatasets
          /\ lastLmdbDatasetIndex' = lastLmdbDatasetIndex
          /\ keys' = keys]_vars

\* C16: close goes on to close the other shards when the close of one of them
\* fails: after a close of the open dataset has returned or raised, no shard but
\* the one whose close failed is left open, and a writable dataset has written
\* its index to keys.json.
CloseClosesEveryShardAndSaves ==
    [][(lmdbDatasets # None /\ last'.op = "exit") =>
          /\ \A i \in DOMAIN envs' : envs'[i].live => last'.key = PyInt(i)
          /\ ~readOnly => keysFile' = <<SavedKeys(keys)>>]_vars

\* C19: the second of two closes in a row closes no shard that was closed
\* already, so that each shard is closed once, and leaves keys.json as the
\* first close left it.
SecondCloseChangesNothing ==
    [][(last.op = "exit" /\ last'.op = "exit") =>
          /\ \A i \in DOMAIN envs' : envs'[i].closes <= 1
          /\ keysFile' = keysFile]_vars

\* C17: on an open dataset made with readOnly = True, every store and every
\* delete fails, and leaves the shard collection (no directory is made), the
\* contents of the shards and the index as they were.
ReadOnlyStoreAndDeleteFail ==
    [][(readOnly /\ Opened /\ last'.op \in {"store", "delete"}) =>
          /\ last'.exc # "none"
          /\ shardDirs' = shardDirs
          /\ lmdbDatasets' = lmdbDatasets
          /\ keys' = keys]_vars

CallsOnClosedDatasetFail ==
    [][(lmdbDatasets = None
          /\ last'.op \in {"store", "read", "delete", "keys", "recalculateKeys"}) =>
          /\ last'.exc = "NotOpened"
          /\ keys' = keys
          /\ shardDirs' = shardDirs]_vars

\* C21: __enter__ on an instance that is open is refused, and leaves the index
\* in memory and the open shards as they were: the entries added since the last
\* save are kept.
EnterOfOpenDatasetIsRefused ==
    [][(lmdbDatasets # None /\ last'.op = "enter") =>
          /\ last'.exc # "none"
          /\ keys' = keys
          /\ lmdbDatasets' = lmdbDatasets
          /\ lastLmdbDatasetIndex' = lastLmdbDatasetIndex]_vars

\* the greatest id of an open shard that holds the key
LastHolder(key) ==
    Max({i \in Range(lmdbDatasets.v) : Holds(shardDirs, i, key)})

\* C22: a rebuild replaces the index by the map that visiting the open shards
\* by ascending id gives, a key being mapped to the last shard that lists it:
\* after keys.json is lost, every key stored is mapped to a shard that holds
\* it, and no other key is in the index.
RebuildIndexesEveryStoredKey ==
    [][(lmdbDatasets # None /\ last'.op = "recalculateKeys") =>
          /\ \A n \in 1..(Len(lmdbDatasets.v) - 1) : lmdbDatasets.v[n] < lmdbDatasets.v[n + 1]
          /\ \A n, m \in 1..Len(keys'.v) : keys'.v[n][1] = keys'.v[m][1] => n = m
          /\ \A n \in 1..Len(keys'.v) :
                /\ \E i \in Range(lmdbDatasets.v) : Holds(shardDirs, i, keys'.v[n][1])
                /\ keys'.v[n][2] = PyInt(LastHolder(keys'.v[n][1]))
          /\ \A i \in Range(lmdbDatasets.v) :
                \A k \in DOMAIN shardDirs[ComposeLmdbDatasetName(i)] :
                   Indexed(keys', Latin1Decode(k))
          /\ \A key \in DOMAIN written : Indexed(keys', key)]_vars

RebuiltAfterKeysFileWasLost ==
    /\ last.op = "recalculateKeys" /\ last.exc = "none"
    /\ Len(keys.v) = 2 /\ keys.v[1][2] = PyInt(0) /\ keys.v[2][2] = PyInt(1)
    /\ keysFile = <<SavedKeys(keys)>>

\* the name is "lmdb_dataset_" followed by twelve decimal digits
MatchesShardPattern(n) ==
    /\ Len(n) = Len(NamePrefix) + 12
    /\ SubSeq(n, 1, Len(NamePrefix)) = NamePrefix
    /\ \A i \in (Len(NamePrefix) + 1)..Len(n) : n[i] \in 48..57

\* C23: the discovery returns, in ascending order, the ids of the entries of
\* the root whose names are "lmdb_dataset_" followed by twelve decimal digits,
\* and ignores every other entry without raising.
DiscoverReturnsIdsOfMatchingNames ==
    last.op = "findLmdbDatasets" =>
        /\ last.exc = "none"
        /\ last.ret = PyList(Sorted({DigitsValue(SubSeq(n, Len(NamePrefix) + 1, Len(n)), 0) :
                                        n \in {f \in DOMAIN shardDirs : MatchesShardPattern(f)}}))

\* the shards of the root are those of the ids 0..n-1, n >= 1
HasShards(root) ==
    /\ DOMAIN root # {}
    /\ \A i \in 0..(Cardinality(DOMAIN root) - 1) : ComposeLmdbDatasetName(i) \in DOMAIN root

\* the shards of the root that hold a record under the key
HoldersIn(root, k) == {n \in DOMAIN root : k \in DOMAIN root[n]}

\* the value of the record of the root under the key, kept in one shard
ValueIn(root, k) == JsonLoads(root[CHOOSE n \in HoldersIn(root, k) : TRUE][k]).ret

\* C24: the view over several roots, each with one shard or more, has each
\* record under the pair (index of its root, key), and a read of (r, k) returns
\* the value stored under k in the root r: the same key stored in root 0 and in
\* root 1 reads back as the value of each.
MultiRootReadReturnsValueOfRoot ==
    (/\ view.kind = "multi" /\ view.datasets # None
     /\ \A r \in 1..Len(roots) : HasShards(roots[r])
     /\ last.op = "read_json"
     /\ last.key.v[1].v[1] < Len(roots)
     /\ Cardinality(HoldersIn(roots[last.key.v[1].v[1] + 1], KeyBytes(last.key.v[2]))) = 1) =>
        /\ last.exc = "none"
        /\ last.ret = ValueIn(roots[last.key.v[1].v[1] + 1], KeyBytes(last.key.v[2]))
        /\ \E n \in 1..Len(view.keys.v) : view.keys.v[n] = last.key

\* the keys of the records of all the shards of the root
KeysIn(root) == UNION {DOMAIN root[n] : n \in DOMAIN root}

\* the root has the shards 0, 1 and 2, and no key is in two of them
ThreeDisjointShards(root) ==
    /\ DOMAIN root = {ComposeLmdbDatasetName(i) : i \in {0, 1, 2}}
    /\ \A n \in DOMAIN root : \A m \in DOMAIN root \ {n} : DOMAIN root[n] \cap DOMAIN root[m] = {}

\* C25: the view over one root whose shards 0, 1 and 2 hold disjoint key sets
\* gives with keys() the union of the three key sets, each key once, and a read
\* of a key of the union returns the value of the shard that holds the key.
ViewOfThreeShardsExposesTheirUnion ==
    (/\ view.kind = "single" /\ view.datasets # None
     /\ ThreeDisjointShards(roots[1])) =>
        /\ last.op = "keys" =>
            /\ last.exc = "none"
            /\ {last.ret.v[n] : n \in 1..Len(last.ret.v)} = {PyStr(k) : k \in KeysIn(roots[1])}
            /\ Len(last.ret.v) = Cardinality(KeysIn(roots[1]))
        /\ (last.op = "read_json" /\ KeyBytes(last.key) \in KeysIn(roots[1])) =>
            /\ last.exc = "none"
            /\ last.ret = ValueIn(roots[1], KeyBytes(last.key))

\* a key of the third shard is read from a view whose three shards hold one
\* record each, and the read returns the value of the third shard, which is not
\* the value of the first
ReadFromThirdOfThreeShards ==
    /\ view.kind = "single" /\ view.datasets # None
    /\ ThreeDisjointShards(roots[1])
    /\ \A n \in DOMAIN roots[1] : DOMAIN roots[1][n] # {}
    /\ last.op = "read_json" /\ last.exc = "none"
    /\ KeyBytes(last.key) \in DOMAIN roots[1][ComposeLmdbDatasetName(2)]
    /\ last.ret = PyInt(2)
    /\ \A k \in DOMAIN roots[1][ComposeLmdbDatasetName(0)] :
           JsonLoads(roots[1][ComposeLmdbDatasetName(0)][k]).ret = PyInt(1)

\* the ids of the shards the view has open
OpenedIds == {view.datasets.v[n][2] : n \in 1..Len(view.datasets.v)}

\* C26: the view over one root opens every shard that the discovery of the
\* writable dataset finds in the root, with gaps in the ids as well (the ids 0
\* and 2 give the shards 0 and 2): its open() does not fail when that discovery
\* finds a shard, and the two see the same shards.
ViewOpensEveryDiscoveredShard ==
    (/\ view.kind = "single"
     /\ last.op = "open"
     /\ NoLock_findLmdbDatasets(roots[1]) # <<>>) =>
        /\ last.exc \in {"none", "AlreadyOpen"}
        /\ view.datasets # None
        /\ OpenedIds = Range(NoLock_findLmdbDatasets(roots[1]))

\* C27: open() of a view, over one root or over several, fails when no root has
\* a shard directory, and the view is left not open.
OpenOverNoShardFails ==
    (/\ last.op = "open"
     /\ \A r \in 1..Len(roots) : DOMAIN roots[r] = {}) =>
        /\ last.exc = "NoShards"
        /\ view = NoView(view.kind)

\* open() of the view over two roots without shard has raised
OpenOverTwoEmptyRootsFailed ==
    /\ view.kind = "multi" /\ Len(roots) = 2
    /\ \A r \in 1..Len(roots) : DOMAIN roots[r] = {}
    /\ last.op = "open" /\ last.exc = "NoShards"
    /\ view.datasets = None

\* C28: __enter__ of a writable dataset on a root without keys.json and without
\* shard directory gives the empty index and the empty shard collection and
\* makes no shard directory; the first store that returns then makes shard 0,
\* puts the record in it and lists the key under the id 0.
EmptyRootOpensEmptyAndFirstStoreMakesShardZero ==
    [][/\ (/\ last'.op = "enter" /\ ~readOnly
           /\ keysFile = <<>> /\ shardDirs = EmptyEnv) =>
              /\ last'.exc = "none"
              /\ keys' = PyDict(<<>>)
              /\ lmdbDatasets' # None /\ lmdbDatasets'.v = <<>>
              /\ lastLmdbDatasetIndex' = None
              /\ shardDirs' = EmptyEnv
       /\ (/\ last'.op = "store" /\ last'.exc = "none"
           /\ lmdbDatasets # None /\ lmdbDatasets.v = <<>>
           /\ keys = PyDict(<<>>) /\ shardDirs = EmptyEnv) =>
              /\ ShardIds(shardDirs') = {0}
              /\ lmdbDatasets'.v = <<0>>
              /\ lastLmdbDatasetIndex' = PyInt(0)
              /\ keys' = PyDict(<< <<last'.key, PyInt(0)>> >>)
              /\ Holds(shardDirs', 0, last'.key)]_vars

\* the dataset opened on the empty root holds one shard, of the id 0, made by
\* the one store that was issued, and the key of that store under the id 0
FirstStoreMadeShardZero ==
    /\ last.op = "store" /\ last.exc = "none" /\ last.puts = <<0>>
    /\ ShardIds(shardDirs) = {0}
    /\ keysFile = <<>>
    /\ keys = PyDict(<< <<last.key, PyInt(0)>> >>)
    /\ \A n \in DOMAIN shardDirs : DOMAIN shardDirs[n] = {KeyBytes(last.key)}

\* C29: the close writes keys.json in one piece: whatever happens to the save,
\* the file holds after the close the whole index saved before or the whole
\* text of the index in memory, and never an empty or a cut text.
KeysFileIsReplacedInOnePiece ==
    [][last'.op = "exit" =>
          \/ keysFile' = keysFile
          \/ keysFile' = <<SavedKeys(keys)>>]_vars

\* the name of the directory of the head after the step
HeadName == ComposeLmdbDatasetName(lastLmdbDatasetIndex'.v[1])

\* C30: after a store under a key and a delete of the key that returns True, a
\* store of another payload under the key, on the writable dataset that stored
\* the first, is not rejected as a duplicate and
\* returns when the record fits a shard; it changes no shard but the head, the
\* head holds the new payload, the index maps the key to the head, and a read
\* of the key then returns the new payload.
StoreAfterDeleteIsAStoreOfANewKey ==
    [][/\ (/\ ~readOnly
           /\ last.op = "delete" /\ last.ret = PyBool(TRUE)
           /\ last'.op = "store" /\ last'.variant = "Data" /\ last'.key = last.key
           /\ last'.payload.t = "bytes") =>
              /\ last'.exc # "KeyExists"
              /\ Len(KeyBytes(last'.key)) + Len(last'.payload.v) <= MapSize =>
                    last'.exc = "none"
              /\ last'.exc = "none" =>
                    /\ stored'.retried
                    /\ Indexed(keys', last'.key)
                    /\ PyInt(IdOf(keys', last'.key)) = lastLmdbDatasetIndex'
                    /\ shardDirs'[HeadName][KeyBytes(last'.key)] = last'.payload.v
                    /\ \A n \in DOMAIN shardDirs' \ {HeadName} :
                          n \in DOMAIN shardDirs /\ shardDirs'[n] = shardDirs[n]
       /\ (/\ stored.retried
           /\ last'.op = "read" /\ last'.variant = "Data"
           /\ last'.key = stored.key) =>
              /\ last'.exc = "none"
              /\ last'.ret = stored.payload]_vars

\* the key was stored in the first shard, deleted when the second shard was the
\* head and stored again: its record is in the second shard only, and the read
\* returns the payload of the second store
RetriedKeyReadFromTheHead ==
    /\ last.op = "read" /\ last.exc = "none"
    /\ stored.retried /\ stored.key = last.key
    /\ last.ret = stored.payload
    /\ lastLmdbDatasetIndex = PyInt(1)
    /\ IdOf(keys, last.key) = 1
    /\ Holds(shardDirs, 1, last.key)
    /\ shardDirs[ComposeLmdbDatasetName(0)] = EmptyEnv
    /\ Len(keys.v) = 2

\* C31: after any sequence of open, store, delete, rebuild, close and reopen
\* on a root that starts empty, no key has a record in two shards, and every
\* key that has a record in a shard is in the index of the open dataset.
NoKeyInTwoShardsAndEveryKeyIndexed ==
    /\ \A n \in DOMAIN shardDirs : \A m \in DOMAIN shardDirs \ {n} :
           DOMAIN shardDirs[n] \cap DOMAIN shardDirs[m] = {}
    /\ Opened =>
           \A n \in DOMAIN shardDirs : \A k \in DOMAIN shardDirs[n] :
               Indexed(keys, Latin1Decode(k))

\* the locks the threads hold: a thread holds the lock of a shard only inside
\* the lock of the dataset, a thread that waits for the lock of the dataset
\* holds no lock, a thread outside a call holds no lock, and no two threads
\* hold the lock of one shard
LockDiscipline ==
    \A t \in Threads :
        /\ shardLocks[t].holds # <<>> => lock = t /\ pc[t].at \in Inside
        /\ pc[t].at \in {"idle", "waiting"} => lock # t /\ shardLocks[t] = NoShardLock
        /\ \A u \in Threads \ {t} :
               shardLocks[t].holds = <<>> \/ shardLocks[t].holds # shardLocks[u].holds

\* a thread is inside a call and no thread inside a call can take a step
Deadlocked ==
    /\ \E t \in Threads : pc[t].at # "idle"
    /\ ~ENABLED (\E t \in Threads : ThreadStep(t))

\* C32: with threads calling the public methods of one dataset, the locks are
\* taken in the order lock of the dataset, then lock of a shard, no call takes
\* a lock it holds, every call has released its locks when it has returned or
\* raised, no deadlock is reached, and under fair scheduling every call that
\* waits for the lock returns.
LocksAreOrderedAndEveryCallReturns ==
    /\ [](LockDiscipline /\ ~Deadlocked)
    /\ \A t \in Threads : (pc[t].at = "waiting") ~> (pc[t].at = "idle")

\* a thread waits for the lock of the dataset while the other, whose put on
\* the head raised MapFullError, holds the lock of the shard it opened next
ShardLockHeldAfterMapFull ==
    \E t \in Threads : \E u \in Threads \ {t} :
        /\ lock = t /\ pc[t].op = "store"
        /\ shardLocks[t] = [n |-> 2, holds |-> <<1>>]
        /\ pc[u].at = "waiting"

\* a call that rebuilds the index of an open dataset: recalculateKeys, or keys
\* with recalculate = True
Rebuilds(c) ==
    \/ c.op = "recalculateKeys"
    \/ c.op = "keys" /\ c.payload = PyBool(TRUE)

\* the keys of the records of the open shards
KeysOfOpenShards ==
    UNION {Single_keys(EnvOf(Cur, i)) : i \in Range(lmdbDatasets.v)}

\* C33: a rebuild on a read-only dataset replaces the index in memory by the
\* rebuilt one, raises the read-only error and leaves keys.json as it was; on
\* a writable dataset it replaces the index and writes it to keys.json in the
\* same call.
RebuildOnReadOnlyReplacesIndexAndRaises ==
    [][(lmdbDatasets # None /\ Rebuilds(last')) =>
          /\ {keys'.v[n][1] : n \in 1..Len(keys'.v)} = KeysOfOpenShards
          /\ readOnly => last'.exc = "ReadOnly" /\ keysFile' = keysFile
          /\ ~readOnly => last'.exc = "none" /\ keysFile' = <<SavedKeys(keys')>>]_vars

\* a read-only dataset whose rebuild raised and left an index that is not the
\* one keys.json holds
RebuiltIndexDiffersFromKeysFile ==
    /\ readOnly /\ Opened
    /\ Rebuilds(last) /\ last.exc = "ReadOnly"
    /\ Len(keys.v) >= 1
    /\ keysFile # <<SavedKeys(keys)>>

\* C34: close() of a read-only view is safe in every state: on a view that is
\* not open (never opened, open failed, already closed) it raises nothing and
\* changes nothing; open() of a view that is open raises and leaves the list
\* of shards and the keys of the view as they were.
CloseOfViewNotOpenIsNoOp ==
    [][/\ (last'.op = "close" /\ view.datasets = None) =>
              last'.exc = "none" /\ view' = view
       /\ (last'.op = "open" /\ view.datasets # None) =>
              last'.exc = "AlreadyOpen" /\ view' = view]_vars

====
